---- MODULE Spec2Model ----
(***************************************************************************)
(* Verification model of clrmeta: the ECMA-335 metadata codec.             *)
(*                                                                         *)
(* Three specifications share this module:                                 *)
(*   SpecRow  - the table-row codec and the row-size calculator            *)
(*   SpecHeap - the four heaps (#Strings, #US, #GUID, #Blob)               *)
(*   Spec     - Metadata::parse / mutate / write / re-parse                *)
(* Bytes are naturals 0..255, byte strings are sequences of bytes.         *)
(***************************************************************************)
EXTENDS Integers, Sequences, FiniteSets, TLC

\* ------------------------------------------------------------------------
\* Table identities (TableId discriminants).
\* ------------------------------------------------------------------------
Module == 0
TypeRef == 1
TypeDef == 2
FieldPtr == 3
Field == 4
MethodPtr == 5
MethodDef == 6
ParamPtr == 7
Param == 8
InterfaceImpl == 9
MemberRef == 10
Constant == 11
CustomAttribute == 12
FieldMarshal == 13
DeclSecurity == 14
ClassLayout == 15
FieldLayout == 16
StandAloneSig == 17
EventMap == 18
EventPtr == 19
Event == 20
PropertyMap == 21
PropertyPtr == 22
Property == 23
MethodSemantics == 24
MethodImpl == 25
ModuleRef == 26
TypeSpec == 27
ImplMap == 28
FieldRva == 29
EncLog == 30
EncMap == 31
Assembly == 32
AssemblyProcessor == 33
AssemblyOs == 34
AssemblyRef == 35
AssemblyRefProcessor == 36
AssemblyRefOs == 37
File == 38
ExportedType == 39
ManifestResource == 40
NestedClass == 41
GenericParam == 42
MethodSpec == 43
GenericParamConstraint == 44

\* Option<TableId>::None inside a coded-index target list.
NoTable == 0 - 1

\* Every table id the TableId enum names (0x00 ..= 0x2C).
TableIds == 0 .. 44

\* The row_counts array of TablesHeader / TableContext has 64 slots.
RowCountSlots == 0 .. 63

\* ------------------------------------------------------------------------
\* Small arithmetic helpers.
\* ------------------------------------------------------------------------
RECURSIVE Pow2(_)
Pow2(n) == IF n = 0 THEN 1 ELSE 2 * Pow2(n - 1)

\* bit i of the mask v (v & (1 << i) != 0)
BitSet(v, i) == (v \div Pow2(i)) % 2 = 1

RECURSIVE SumSeq(_)
SumSeq(s) == IF s = <<>> THEN 0 ELSE Head(s) + SumSeq(Tail(s))

RECURSIVE Concat(_)
Concat(ss) == IF ss = <<>> THEN <<>> ELSE Head(ss) \o Concat(Tail(ss))

\* (n + 3) & !3
Align4(n) == ((n + 3) \div 4) * 4

\* F applied to the value of e: e is evaluated once, as a Rust `let` does
Bind(e, F(_)) == CHOOSE r \in { F(v) : v \in { e } } : TRUE

\* ------------------------------------------------------------------------
\* CodedIndexKind (tables/coded_index.rs)
\* ------------------------------------------------------------------------
CodedIndexKinds ==
    { "TypeDefOrRef", "HasConstant", "HasCustomAttribute", "HasFieldMarshal",
      "HasDeclSecurity", "MemberRefParent", "HasSemantics", "MethodDefOrRef",
      "MemberForwarded", "Implementation", "CustomAttributeType",
      "ResolutionScope", "TypeOrMethodDef" }

tag_bits(kind) ==
    CASE kind = "TypeDefOrRef" -> 2
      [] kind = "HasConstant" -> 2
      [] kind = "HasCustomAttribute" -> 5
      [] kind = "HasFieldMarshal" -> 1
      [] kind = "HasDeclSecurity" -> 2
      [] kind = "MemberRefParent" -> 3
      [] kind = "HasSemantics" -> 1
      [] kind = "MethodDefOrRef" -> 1
      [] kind = "MemberForwarded" -> 1
      [] kind = "Implementation" -> 2
      [] kind = "CustomAttributeType" -> 3
      [] kind = "ResolutionScope" -> 2
      [] kind = "TypeOrMethodDef" -> 1

tables(kind) ==
    CASE kind = "TypeDefOrRef" -> << TypeDef, TypeRef, TypeSpec >>
      [] kind = "HasConstant" -> << Field, Param, Property >>
      [] kind = "HasCustomAttribute" ->
            << MethodDef, Field, TypeRef, TypeDef, Param, InterfaceImpl,
               MemberRef, Module, NoTable, Property, Event, StandAloneSig,
               ModuleRef, TypeSpec, Assembly, AssemblyRef, File, ExportedType,
               ManifestResource, GenericParam, GenericParamConstraint,
               MethodSpec >>
      [] kind = "HasFieldMarshal" -> << Field, Param >>
      [] kind = "HasDeclSecurity" -> << TypeDef, MethodDef, Assembly >>
      [] kind = "MemberRefParent" ->
            << TypeDef, TypeRef, ModuleRef, MethodDef, TypeSpec >>
      [] kind = "HasSemantics" -> << Event, Property >>
      [] kind = "MethodDefOrRef" -> << MethodDef, MemberRef >>
      [] kind = "MemberForwarded" -> << Field, MethodDef >>
      [] kind = "Implementation" -> << File, AssemblyRef, ExportedType >>
      [] kind = "CustomAttributeType" ->
            << NoTable, NoTable, MethodDef, MemberRef, NoTable >>
      [] kind = "ResolutionScope" ->
            << Module, ModuleRef, AssemblyRef, TypeRef >>
      [] kind = "TypeOrMethodDef" -> << TypeDef, MethodDef >>

max_small_rows(kind) == Pow2(16 - tag_bits(kind))

\* the tables a scheme can name: the Some(..) entries of its list
Targets(kind) ==
    { tables(kind)[i] : i \in 1 .. Len(tables(kind)) } \ { NoTable }

\* CodedIndex::decode: the low tag_bits select the table (None when the tag
\* is past the list or names an unused slot), the rest is the row.
decode(kind, value) ==
    LET tag == value % Pow2(tag_bits(kind))
        row == value \div Pow2(tag_bits(kind))
        tbls == tables(kind)
    IN  [ table |-> IF tag + 1 <= Len(tbls) THEN tbls[tag + 1] ELSE NoTable,
          row |-> row ]

\* position of the first list entry equal to ci.table, or 0 (unwrap_or(0))
TagOf(kind, table) ==
    LET tbls == tables(kind)
        hits == { i \in 1 .. Len(tbls) : tbls[i] = table }
    IN  IF hits = {} THEN 0
        ELSE (CHOOSE i \in hits : \A j \in hits : i <= j) - 1

\* CodedIndex::encode: (row << tag_bits) | tag.  The tag is below
\* 2^tag_bits, so the bitwise or is an addition.  Rows in this model stay
\* below 2^26, so the u32 shift never drops a bit.
encode(ci, kind) ==
    (ci.row * Pow2(tag_bits(kind))) + TagOf(kind, ci.table)

\* The same two functions over the whole u32 range.  A u32 is held as two
\* 16-bit halves, hi * 65536 + lo; b is at most 5.
U32(hi, lo) == [ hi |-> hi, lo |-> lo ]

\* u << b, dropping the bits shifted out of the u32
Shl32(u, b) ==
    U32(((u.hi * Pow2(b)) + (u.lo \div Pow2(16 - b))) % 65536,
        (u.lo * Pow2(b)) % 65536)

\* u >> b
Shr32(u, b) ==
    U32(u.hi \div Pow2(b),
        (u.lo \div Pow2(b)) + ((u.hi % Pow2(b)) * Pow2(16 - b)))

\* a decode that takes the whole value for the row
decode_u32_no_shift(kind, value) ==
    LET tag == value.lo % Pow2(tag_bits(kind))
        tbls == tables(kind)
    IN  [ table |-> IF tag + 1 <= Len(tbls) THEN tbls[tag + 1] ELSE NoTable,
          row |-> value ]

\* CodedIndex::decode on a u32 held in halves
decode_u32(kind, value) ==
    LET tag == value.lo % Pow2(tag_bits(kind))
        tbls == tables(kind)
    IN  [ table |-> IF tag + 1 <= Len(tbls) THEN tbls[tag + 1] ELSE NoTable,
          row |-> Shr32(value, tag_bits(kind)) ]

\* CodedIndex::encode on a row held in halves: (row << tag_bits) | tag.
\* The shifted value has its low tag_bits clear and the tag is below
\* 2^tag_bits, so the bitwise or adds the tag to the low half.
encode_u32(ci, kind) ==
    LET shifted == Shl32(ci.row, tag_bits(kind))
    IN  U32(shifted.hi, shifted.lo + TagOf(kind, ci.table))

\* ------------------------------------------------------------------------
\* Byte I/O (reader.rs, writer.rs).  A reader is (data, pos); every read
\* returns [ok, val, pos, err].
\* ------------------------------------------------------------------------
\* n little-endian bytes of v (to_le_bytes after the `as uN` truncation)
LE(v, n) == [ i \in 1 .. n |-> (v \div Pow2(8 * (i - 1))) % 256 ]

RECURSIVE FromLE(_)
FromLE(bs) == IF bs = <<>> THEN 0 ELSE Head(bs) + 256 * FromLE(Tail(bs))

Eof(pos, needed) == [ kind |-> "UnexpectedEof", offset |-> pos, needed |-> needed ]
NoErr == [ kind |-> "none", offset |-> 0, needed |-> 0 ]

\* a read_bytes whose error reports the bytes missing, not the bytes asked
read_bytes_missing(data, pos, len) ==
    IF pos + len > Len(data)
    THEN [ ok |-> FALSE, val |-> <<>>, pos |-> pos,
           err |-> Eof(pos, (pos + len) - Len(data)) ]
    ELSE [ ok |-> TRUE, val |-> SubSeq(data, pos + 1, pos + len),
           pos |-> pos + len, err |-> NoErr ]

read_bytes(data, pos, len) ==
    IF pos + len > Len(data)
    THEN [ ok |-> FALSE, val |-> <<>>, pos |-> pos, err |-> Eof(pos, len) ]
    ELSE [ ok |-> TRUE, val |-> SubSeq(data, pos + 1, pos + len),
           pos |-> pos + len, err |-> NoErr ]

read_u8(data, pos) ==
    IF pos >= Len(data)
    THEN [ ok |-> FALSE, val |-> 0, pos |-> pos, err |-> Eof(pos, 1) ]
    ELSE [ ok |-> TRUE, val |-> data[pos + 1], pos |-> pos + 1, err |-> NoErr ]

ReadLE(data, pos, n) ==
    LET r == read_bytes(data, pos, n)
    IN  [ ok |-> r.ok, val |-> IF r.ok THEN FromLE(r.val) ELSE 0,
          pos |-> r.pos, err |-> r.err ]

read_u16(data, pos) == ReadLE(data, pos, 2)
read_u32(data, pos) == ReadLE(data, pos, 4)

\* read_u64 of a bit mask: the value is kept as the set of its set bits
read_u64(data, pos) ==
    LET r == read_bytes(data, pos, 8)
    IN  [ ok |-> r.ok,
          val |-> IF r.ok
                  THEN { b \in 0 .. 63 : BitSet(r.val[(b \div 8) + 1], b % 8) }
                  ELSE {},
          pos |-> r.pos, err |-> r.err ]

read_index(data, pos, wide) ==
    IF wide THEN read_u32(data, pos) ELSE read_u16(data, pos)

\* Reader::position, Reader::len
position(data, pos) == pos
Reader_len(data, pos) == Len(data)

\* Reader::remaining: data.len().saturating_sub(pos)
remaining(data, pos) == IF Len(data) >= pos THEN Len(data) - pos ELSE 0

\* a seek that moves the cursor wherever it is told
seek_unchecked(data, pos, target) ==
    [ ok |-> TRUE, val |-> 0, pos |-> target, err |-> NoErr ]

\* Reader::seek
seek(data, pos, target) ==
    IF target > Len(data)
    THEN [ ok |-> FALSE, val |-> 0, pos |-> pos, err |-> Eof(target, 0) ]
    ELSE [ ok |-> TRUE, val |-> 0, pos |-> target, err |-> NoErr ]

write_u8(v) == LE(v, 1)
write_u16(v) == LE(v, 2)
write_u32(v) == LE(v, 4)

RECURSIVE SumSet(_)
SumSet(S) == IF S = {} THEN 0
             ELSE LET x == CHOOSE y \in S : TRUE IN x + SumSet(S \ {x})

\* write_u64 of a bit mask held as the set of its set bits
write_u64(bits) ==
    [ i \in 1 .. 8 |->
        SumSet({ Pow2(b % 8) : b \in { c \in bits : c \div 8 = i - 1 } }) ]

\* a write_index that ignores the wide flag
write_index_narrow(value, wide) == write_u16(value % 65536)

\* write_index: the narrow form truncates with `value as u16`
write_index(value, wide) ==
    IF wide THEN write_u32(value) ELSE write_u16(value % 65536)

\* Writer::align: zero padding up to the next multiple of `alignment`
AlignPad(len, alignment) ==
    IF len % alignment = 0 THEN <<>>
    ELSE [ i \in 1 .. (alignment - (len % alignment)) |-> 0 ]

\* ------------------------------------------------------------------------
\* TableContext (tables/context.rs): [heap_sizes, row_counts]
\* ------------------------------------------------------------------------
wide_string_indices(ctx) == BitSet(ctx.heap_sizes, 0)
wide_guid_indices(ctx) == BitSet(ctx.heap_sizes, 1)
wide_blob_indices(ctx) == BitSet(ctx.heap_sizes, 2)

string_index_size(ctx) == IF wide_string_indices(ctx) THEN 4 ELSE 2
guid_index_size(ctx) == IF wide_guid_indices(ctx) THEN 4 ELSE 2
blob_index_size(ctx) == IF wide_blob_indices(ctx) THEN 4 ELSE 2

wide_table_index(ctx, table) == ctx.row_counts[table] > 65535
table_index_size(ctx, table) == IF wide_table_index(ctx, table) THEN 4 ELSE 2

\* a width test that needs more than max_small_rows rows
wide_coded_index_strict(ctx, kind) ==
    \E i \in 1 .. Len(tables(kind)) :
        /\ tables(kind)[i] # NoTable
        /\ ctx.row_counts[tables(kind)[i]] > max_small_rows(kind)

wide_coded_index(ctx, kind) ==
    \E i \in 1 .. Len(tables(kind)) :
        /\ tables(kind)[i] # NoTable
        /\ ctx.row_counts[tables(kind)[i]] >= max_small_rows(kind)

coded_index_size(ctx, kind) == IF wide_coded_index(ctx, kind) THEN 4 ELSE 2

row_size(ctx, table) ==
    CASE table = Module ->
            2 + string_index_size(ctx) * 2 + guid_index_size(ctx) * 3
      [] table = TypeRef ->
            coded_index_size(ctx, "ResolutionScope") + string_index_size(ctx) * 2
      [] table = TypeDef ->
            4 + string_index_size(ctx) * 2
              + coded_index_size(ctx, "TypeDefOrRef")
              + table_index_size(ctx, Field)
              + table_index_size(ctx, MethodDef)
      [] table = Field -> 2 + string_index_size(ctx) + blob_index_size(ctx)
      [] table = MethodDef ->
            4 + 2 + 2 + string_index_size(ctx) + blob_index_size(ctx)
              + table_index_size(ctx, Param)
      [] table = Param -> 2 + 2 + string_index_size(ctx)
      [] table = InterfaceImpl ->
            table_index_size(ctx, TypeDef) + coded_index_size(ctx, "TypeDefOrRef")
      [] table = MemberRef ->
            coded_index_size(ctx, "MemberRefParent") + string_index_size(ctx)
              + blob_index_size(ctx)
      [] table = Constant ->
            2 + coded_index_size(ctx, "HasConstant") + blob_index_size(ctx)
      [] table = CustomAttribute ->
            coded_index_size(ctx, "HasCustomAttribute")
              + coded_index_size(ctx, "CustomAttributeType")
              + blob_index_size(ctx)
      [] table = Assembly ->
            4 + 2 * 4 + 4 + blob_index_size(ctx) + string_index_size(ctx) * 2
      [] table = AssemblyRef ->
            2 * 4 + 4 + blob_index_size(ctx) * 2 + string_index_size(ctx) * 2
      [] table = FieldMarshal ->
            coded_index_size(ctx, "HasFieldMarshal") + blob_index_size(ctx)
      [] table = DeclSecurity ->
            2 + coded_index_size(ctx, "HasDeclSecurity") + blob_index_size(ctx)
      [] table = ClassLayout -> 2 + 4 + table_index_size(ctx, TypeDef)
      [] table = FieldLayout -> 4 + table_index_size(ctx, Field)
      [] table = StandAloneSig -> blob_index_size(ctx)
      [] table = EventMap ->
            table_index_size(ctx, TypeDef) + table_index_size(ctx, Event)
      [] table = Event ->
            2 + string_index_size(ctx) + coded_index_size(ctx, "TypeDefOrRef")
      [] table = PropertyMap ->
            table_index_size(ctx, TypeDef) + table_index_size(ctx, Property)
      [] table = Property -> 2 + string_index_size(ctx) + blob_index_size(ctx)
      [] table = MethodSemantics ->
            2 + table_index_size(ctx, MethodDef)
              + coded_index_size(ctx, "HasSemantics")
      [] table = MethodImpl ->
            table_index_size(ctx, TypeDef)
              + coded_index_size(ctx, "MethodDefOrRef") * 2
      [] table = ModuleRef -> string_index_size(ctx)
      [] table = TypeSpec -> blob_index_size(ctx)
      [] table = ImplMap ->
            2 + coded_index_size(ctx, "MemberForwarded") + string_index_size(ctx)
              + table_index_size(ctx, ModuleRef)
      [] table = FieldRva -> 4 + table_index_size(ctx, Field)
      [] table = NestedClass -> table_index_size(ctx, TypeDef) * 2
      [] table = GenericParam ->
            2 + 2 + coded_index_size(ctx, "TypeOrMethodDef")
              + string_index_size(ctx)
      [] table = MethodSpec ->
            coded_index_size(ctx, "MethodDefOrRef") + blob_index_size(ctx)
      [] table = GenericParamConstraint ->
            table_index_size(ctx, GenericParam)
              + coded_index_size(ctx, "TypeDefOrRef")
      [] OTHER -> 0

\* ------------------------------------------------------------------------
\* Row types (tables/rows.rs).  A row is a function from field name to
\* value; a coded-index field holds a CodedIndex [table, row].  The field
\* lists below are the reads of each parse() and the writes of each write(),
\* in source order.
\* ------------------------------------------------------------------------
FU8(n) == [ n |-> n, k |-> "u8", t |-> NoTable, c |-> "" ]
FU16(n) == [ n |-> n, k |-> "u16", t |-> NoTable, c |-> "" ]
FU32(n) == [ n |-> n, k |-> "u32", t |-> NoTable, c |-> "" ]
FStr(n) == [ n |-> n, k |-> "str", t |-> NoTable, c |-> "" ]
FGuid(n) == [ n |-> n, k |-> "guid", t |-> NoTable, c |-> "" ]
FBlob(n) == [ n |-> n, k |-> "blob", t |-> NoTable, c |-> "" ]
FTbl(n, t) == [ n |-> n, k |-> "tbl", t |-> t, c |-> "" ]
FCod(n, c) == [ n |-> n, k |-> "coded", t |-> NoTable, c |-> c ]

\* Tables with a row type in tables/rows.rs
SourceRowTables ==
    { Module, TypeRef, TypeDef, Field, MethodDef, Param, MemberRef,
      CustomAttribute, Assembly, AssemblyRef, InterfaceImpl, Constant,
      FieldMarshal, DeclSecurity, ClassLayout, FieldLayout, StandAloneSig,
      EventMap, Event, PropertyMap, Property, MethodSemantics, MethodImpl,
      ModuleRef, TypeSpec, ImplMap, FieldRva, NestedClass, GenericParam,
      MethodSpec, GenericParamConstraint }

\* Row types metadata.rs uses whose definitions are outside tables/rows.rs:
\* the five *Ptr tables, EncLog and EncMap (field lists per the field table
\* of the specification, section 4.6).
PtrRowTables == { FieldPtr, MethodPtr, ParamPtr, EventPtr, PropertyPtr, EncLog, EncMap }

PtrRowFields(table) ==
    CASE table = FieldPtr -> << FTbl("field", Field) >>
      [] table = MethodPtr -> << FTbl("method", MethodDef) >>
      [] table = ParamPtr -> << FTbl("param", Param) >>
      [] table = EventPtr -> << FTbl("event", Event) >>
      [] table = PropertyPtr -> << FTbl("property", Property) >>
      [] table = EncLog -> << FU32("token"), FU32("func_code") >>
      [] table = EncMap -> << FU32("token") >>

\* Tables Metadata holds a row vector for
ModeledTables == SourceRowTables \cup PtrRowTables

\* Tables Metadata::parse skips and Metadata::write_tables never emits
UnmodeledTables ==
    { AssemblyProcessor, AssemblyOs, AssemblyRefProcessor, AssemblyRefOs,
      File, ExportedType, ManifestResource }

\* the reads of R::parse, in order
RowParseFields(table) ==
    CASE table = Module ->
            << FU16("generation"), FStr("name"), FGuid("mvid"),
               FGuid("enc_id"), FGuid("enc_base_id") >>
      [] table = TypeRef ->
            << FCod("resolution_scope", "ResolutionScope"),
               FStr("type_name"), FStr("type_namespace") >>
      [] table = TypeDef ->
            << FU32("flags"), FStr("type_name"), FStr("type_namespace"),
               FCod("extends", "TypeDefOrRef"), FTbl("field_list", Field),
               FTbl("method_list", MethodDef) >>
      [] table = Field -> << FU16("flags"), FStr("name"), FBlob("signature") >>
      [] table = MethodDef ->
            << FU32("rva"), FU16("impl_flags"), FU16("flags"), FStr("name"),
               FBlob("signature"), FTbl("param_list", Param) >>
      [] table = Param -> << FU16("flags"), FU16("sequence"), FStr("name") >>
      [] table = MemberRef ->
            << FCod("class", "MemberRefParent"), FStr("name"),
               FBlob("signature") >>
      [] table = CustomAttribute ->
            << FCod("parent", "HasCustomAttribute"),
               FCod("attr_type", "CustomAttributeType"), FBlob("value") >>
      [] table = Assembly ->
            << FU32("hash_alg_id"), FU16("major_version"),
               FU16("minor_version"), FU16("build_number"),
               FU16("revision_number"), FU32("flags"), FBlob("public_key"),
               FStr("name"), FStr("culture") >>
      [] table = AssemblyRef ->
            << FU16("major_version"), FU16("minor_version"),
               FU16("build_number"), FU16("revision_number"), FU32("flags"),
               FBlob("public_key_or_token"), FStr("name"), FStr("culture"),
               FBlob("hash_value") >>
      [] table = InterfaceImpl ->
            << FTbl("class", TypeDef), FCod("interface", "TypeDefOrRef") >>
      [] table = Constant ->
            << FU8("constant_type"), FU8("padding"),
               FCod("parent", "HasConstant"), FBlob("value") >>
      [] table = FieldMarshal ->
            << FCod("parent", "HasFieldMarshal"), FBlob("native_type") >>
      [] table = DeclSecurity ->
            << FU16("action"), FCod("parent", "HasDeclSecurity"),
               FBlob("permission_set") >>
      [] table = ClassLayout ->
            << FU16("packing_size"), FU32("class_size"),
               FTbl("parent", TypeDef) >>
      [] table = FieldLayout -> << FU32("offset"), FTbl("field", Field) >>
      [] table = StandAloneSig -> << FBlob("signature") >>
      [] table = EventMap ->
            << FTbl("parent", TypeDef), FTbl("event_list", Event) >>
      [] table = Event ->
            << FU16("event_flags"), FStr("name"),
               FCod("event_type", "TypeDefOrRef") >>
      [] table = PropertyMap ->
            << FTbl("parent", TypeDef), FTbl("property_list", Property) >>
      [] table = Property ->
            << FU16("flags"), FStr("name"), FBlob("property_type") >>
      [] table = MethodSemantics ->
            << FU16("semantics"), FTbl("method", MethodDef),
               FCod("association", "HasSemantics") >>
      [] table = MethodImpl ->
            << FTbl("class", TypeDef), FCod("method_body", "MethodDefOrRef"),
               FCod("method_declaration", "MethodDefOrRef") >>
      [] table = ModuleRef -> << FStr("name") >>
      [] table = TypeSpec -> << FBlob("signature") >>
      [] table = ImplMap ->
            << FU16("mapping_flags"),
               FCod("member_forwarded", "MemberForwarded"),
               FStr("import_name"), FTbl("import_scope", ModuleRef) >>
      [] table = FieldRva -> << FU32("rva"), FTbl("field", Field) >>
      [] table = NestedClass ->
            << FTbl("nested_class", TypeDef), FTbl("enclosing_class", TypeDef) >>
      [] table = GenericParam ->
            << FU16("number"), FU16("flags"),
               FCod("owner", "TypeOrMethodDef"), FStr("name") >>
      [] table = MethodSpec ->
            << FCod("method", "MethodDefOrRef"), FBlob("instantiation") >>
      [] table = GenericParamConstraint ->
            << FTbl("owner", GenericParam), FCod("constraint", "TypeDefOrRef") >>
      [] OTHER -> PtrRowFields(table)

\* the writes of R::write, in order
RowWriteFields(table) ==
    CASE table = Module ->
            << FU16("generation"), FStr("name"), FGuid("mvid"),
               FGuid("enc_id"), FGuid("enc_base_id") >>
      [] table = TypeRef ->
            << FCod("resolution_scope", "ResolutionScope"),
               FStr("type_name"), FStr("type_namespace") >>
      [] table = TypeDef ->
            << FU32("flags"), FStr("type_name"), FStr("type_namespace"),
               FCod("extends", "TypeDefOrRef"), FTbl("field_list", Field),
               FTbl("method_list", MethodDef) >>
      [] table = Field -> << FU16("flags"), FStr("name"), FBlob("signature") >>
      [] table = MethodDef ->
            << FU32("rva"), FU16("impl_flags"), FU16("flags"), FStr("name"),
               FBlob("signature"), FTbl("param_list", Param) >>
      [] table = Param -> << FU16("flags"), FU16("sequence"), FStr("name") >>
      [] table = MemberRef ->
            << FCod("class", "MemberRefParent"), FStr("name"),
               FBlob("signature") >>
      [] table = CustomAttribute ->
            << FCod("parent", "HasCustomAttribute"),
               FCod("attr_type", "CustomAttributeType"), FBlob("value") >>
      [] table = Assembly ->
            << FU32("hash_alg_id"), FU16("major_version"),
               FU16("minor_version"), FU16("build_number"),
               FU16("revision_number"), FU32("flags"), FBlob("public_key"),
               FStr("name"), FStr("culture") >>
      [] table = AssemblyRef ->
            << FU16("major_version"), FU16("minor_version"),
               FU16("build_number"), FU16("revision_number"), FU32("flags"),
               FBlob("public_key_or_token"), FStr("name"), FStr("culture"),
               FBlob("hash_value") >>
      [] table = InterfaceImpl ->
            << FTbl("class", TypeDef), FCod("interface", "TypeDefOrRef") >>
      [] table = Constant ->
            << FU8("constant_type"), FU8("padding"),
               FCod("parent", "HasConstant"), FBlob("value") >>
      [] table = FieldMarshal ->
            << FCod("parent", "HasFieldMarshal"), FBlob("native_type") >>
      [] table = DeclSecurity ->
            << FU16("action"), FCod("parent", "HasDeclSecurity"),
               FBlob("permission_set") >>
      [] table = ClassLayout ->
            << FU16("packing_size"), FU32("class_size"),
               FTbl("parent", TypeDef) >>
      [] table = FieldLayout -> << FU32("offset"), FTbl("field", Field) >>
      [] table = StandAloneSig -> << FBlob("signature") >>
      [] table = EventMap ->
            << FTbl("parent", TypeDef), FTbl("event_list", Event) >>
      [] table = Event ->
            << FU16("event_flags"), FStr("name"),
               FCod("event_type", "TypeDefOrRef") >>
      [] table = PropertyMap ->
            << FTbl("parent", TypeDef), FTbl("property_list", Property) >>
      [] table = Property ->
            << FU16("flags"), FStr("name"), FBlob("property_type") >>
      [] table = MethodSemantics ->
            << FU16("semantics"), FTbl("method", MethodDef),
               FCod("association", "HasSemantics") >>
      [] table = MethodImpl ->
            << FTbl("class", TypeDef), FCod("method_body", "MethodDefOrRef"),
               FCod("method_declaration", "MethodDefOrRef") >>
      [] table = ModuleRef -> << FStr("name") >>
      [] table = TypeSpec -> << FBlob("signature") >>
      [] table = ImplMap ->
            << FU16("mapping_flags"),
               FCod("member_forwarded", "MemberForwarded"),
               FStr("import_name"), FTbl("import_scope", ModuleRef) >>
      [] table = FieldRva -> << FU32("rva"), FTbl("field", Field) >>
      [] table = NestedClass ->
            << FTbl("nested_class", TypeDef), FTbl("enclosing_class", TypeDef) >>
      [] table = GenericParam ->
            << FU16("number"), FU16("flags"),
               FCod("owner", "TypeOrMethodDef"), FStr("name") >>
      [] table = MethodSpec ->
            << FCod("method", "MethodDefOrRef"), FBlob("instantiation") >>
      [] table = GenericParamConstraint ->
            << FTbl("owner", GenericParam), FCod("constraint", "TypeDefOrRef") >>
      [] OTHER -> PtrRowFields(table)

\* the `wide` flag each field's read_index / write_index is called with
FieldWide(ctx, f) ==
    CASE f.k = "str" -> wide_string_indices(ctx)
      [] f.k = "guid" -> wide_guid_indices(ctx)
      [] f.k = "blob" -> wide_blob_indices(ctx)
      [] f.k = "tbl" -> wide_table_index(ctx, f.t)
      [] f.k = "coded" -> wide_coded_index(ctx, f.c)
      [] OTHER -> FALSE

\* one field read of a row parser
ReadField(f, ctx, data, pos) ==
    CASE f.k = "u8" -> read_u8(data, pos)
      [] f.k = "u16" -> read_u16(data, pos)
      [] f.k = "u32" -> read_u32(data, pos)
      [] f.k = "coded" ->
            LET r == read_index(data, pos, FieldWide(ctx, f))
            IN  [ ok |-> r.ok, val |-> decode(f.c, r.val), pos |-> r.pos,
                  err |-> r.err ]
      [] OTHER -> read_index(data, pos, FieldWide(ctx, f))

\* one field write of a row writer
WriteField(f, ctx, row) ==
    CASE f.k = "u8" -> write_u8(row[f.n])
      [] f.k = "u16" -> write_u16(row[f.n])
      [] f.k = "u32" -> write_u32(row[f.n])
      [] f.k = "coded" -> write_index(encode(row[f.n], f.c), FieldWide(ctx, f))
      [] OTHER -> write_index(row[f.n], FieldWide(ctx, f))

EmptyRow == [ n \in {} |-> 0 ]

RECURSIVE ParseFields(_, _, _, _, _)
ParseFields(fs, ctx, data, pos, acc) ==
    IF fs = <<>>
    THEN [ ok |-> TRUE, row |-> acc, pos |-> pos, err |-> NoErr ]
    ELSE Bind(ReadField(Head(fs), ctx, data, pos),
              LAMBDA r :
                  IF ~r.ok
                  THEN [ ok |-> FALSE, row |-> EmptyRow, pos |-> r.pos,
                         err |-> r.err ]
                  ELSE ParseFields(Tail(fs), ctx, data, r.pos,
                                   acc @@ (Head(fs).n :> r.val)))

\* R::parse(reader, ctx) for the row type of `table`
ParseRow(table, ctx, data, pos) ==
    ParseFields(RowParseFields(table), ctx, data, pos, EmptyRow)

RECURSIVE WriteFields(_, _, _)
WriteFields(fs, ctx, row) ==
    IF fs = <<>> THEN <<>>
    ELSE WriteField(Head(fs), ctx, row) \o WriteFields(Tail(fs), ctx, row)

\* R::write(writer, ctx): the bytes appended to the writer
WriteRow(table, ctx, row) == WriteFields(RowWriteFields(table), ctx, row)

\* ------------------------------------------------------------------------
\* Compressed unsigned integers (reader.rs / writer.rs, ECMA-335 II.23.2)
\* ------------------------------------------------------------------------
\* a | b on two bytes
BitOr8(a, b) ==
    SumSeq([ i \in 1 .. 8 |->
               IF BitSet(a, i - 1) \/ BitSet(b, i - 1) THEN Pow2(i - 1) ELSE 0 ])

InvalidCompressedInt(start) ==
    [ kind |-> "InvalidCompressedInt", offset |-> start, needed |-> 0 ]

\* a decoder whose four-byte form takes the low three bytes low byte first
read_compressed_uint_le(data, pos) ==
    LET first == read_u8(data, pos)
    IN  IF ~first.ok THEN first
        ELSE IF first.val < 128 THEN first
        ELSE IF first.val < 192 THEN
            LET second == read_u8(data, first.pos)
            IN  IF ~second.ok THEN second
                ELSE [ ok |-> TRUE,
                       val |-> ((first.val % 64) * 256) + second.val,
                       pos |-> second.pos, err |-> NoErr ]
        ELSE IF first.val < 224 THEN
            LET bytes == read_bytes(data, first.pos, 3)
            IN  IF ~bytes.ok
                THEN [ ok |-> FALSE, val |-> 0, pos |-> bytes.pos,
                       err |-> bytes.err ]
                ELSE [ ok |-> TRUE,
                       val |-> ((first.val % 32) * Pow2(24))
                               + (bytes.val[3] * 65536)
                               + (bytes.val[2] * 256) + bytes.val[1],
                       pos |-> bytes.pos, err |-> NoErr ]
        ELSE [ ok |-> FALSE, val |-> 0, pos |-> first.pos,
               err |-> InvalidCompressedInt(pos) ]

read_compressed_uint(data, pos) ==
    LET first == read_u8(data, pos)
    IN  IF ~first.ok THEN first
        ELSE IF first.val < 128 THEN first
        ELSE IF first.val < 192 THEN
            LET second == read_u8(data, first.pos)
            IN  IF ~second.ok THEN second
                ELSE [ ok |-> TRUE,
                       val |-> ((first.val % 64) * 256) + second.val,
                       pos |-> second.pos, err |-> NoErr ]
        ELSE IF first.val < 224 THEN
            LET bytes == read_bytes(data, first.pos, 3)
            IN  IF ~bytes.ok
                THEN [ ok |-> FALSE, val |-> 0, pos |-> bytes.pos,
                       err |-> bytes.err ]
                ELSE [ ok |-> TRUE,
                       val |-> ((first.val % 32) * Pow2(24))
                               + (bytes.val[1] * 65536)
                               + (bytes.val[2] * 256) + bytes.val[3],
                       pos |-> bytes.pos, err |-> NoErr ]
        ELSE [ ok |-> FALSE, val |-> 0, pos |-> first.pos,
               err |-> InvalidCompressedInt(pos) ]

\* an encoder whose four-byte form writes the low three bytes low byte first
write_compressed_uint_le(value) ==
    IF value < 128 THEN << value >>
    ELSE IF value < 16384
    THEN << BitOr8(128, (value \div 256) % 256), value % 256 >>
    ELSE << BitOr8(192, (value \div Pow2(24)) % 256),
            value % 256, (value \div 256) % 256, (value \div 65536) % 256 >>

write_compressed_uint(value) ==
    IF value < 128 THEN << value >>
    ELSE IF value < 16384
    THEN << BitOr8(128, (value \div 256) % 256), value % 256 >>
    ELSE << BitOr8(192, (value \div Pow2(24)) % 256),
            (value \div 65536) % 256, (value \div 256) % 256, value % 256 >>

\* ------------------------------------------------------------------------
\* Text conversions used by the heaps.  A string (&str / String) is a
\* sequence of Unicode scalar values.
\* ------------------------------------------------------------------------
\* the UTF-8 bytes of one scalar value
Utf8Char(c) ==
    IF c < 128 THEN << c >>
    ELSE IF c < 2048 THEN << 192 + (c \div 64), 128 + (c % 64) >>
    ELSE IF c < 65536
    THEN << 224 + (c \div 4096), 128 + ((c \div 64) % 64), 128 + (c % 64) >>
    ELSE << 240 + (c \div 262144), 128 + ((c \div 4096) % 64),
            128 + ((c \div 64) % 64), 128 + (c % 64) >>

\* str::as_bytes
as_bytes(s) == Concat([ i \in 1 .. Len(s) |-> Utf8Char(s[i]) ])

IsCont(bs, i) == i <= Len(bs) /\ bs[i] >= 128 /\ bs[i] <= 191
InRange(bs, i, lo, hi) == i <= Len(bs) /\ bs[i] >= lo /\ bs[i] <= hi

\* length of the well-formed UTF-8 sequence starting at bs[i], 0 if none
Utf8SeqLen(bs, i) ==
    LET b == bs[i]
    IN  IF b < 128 THEN 1
        ELSE IF b >= 194 /\ b <= 223
        THEN (IF IsCont(bs, i + 1) THEN 2 ELSE 0)
        ELSE IF b >= 224 /\ b <= 239
        THEN (IF /\ InRange(bs, i + 1, IF b = 224 THEN 160 ELSE 128,
                            IF b = 237 THEN 159 ELSE 191)
                 /\ IsCont(bs, i + 2)
              THEN 3 ELSE 0)
        ELSE IF b >= 240 /\ b <= 244
        THEN (IF /\ InRange(bs, i + 1, IF b = 240 THEN 144 ELSE 128,
                            IF b = 244 THEN 143 ELSE 191)
                 /\ IsCont(bs, i + 2) /\ IsCont(bs, i + 3)
              THEN 4 ELSE 0)
        ELSE 0

Utf8Scalar(bs, i, n) ==
    CASE n = 1 -> bs[i]
      [] n = 2 -> ((bs[i] % 32) * 64) + (bs[i + 1] % 64)
      [] n = 3 -> ((bs[i] % 16) * 4096) + ((bs[i + 1] % 64) * 64)
                  + (bs[i + 2] % 64)
      [] OTHER -> ((bs[i] % 8) * 262144) + ((bs[i + 1] % 64) * 4096)
                  + ((bs[i + 2] % 64) * 64) + (bs[i + 3] % 64)

RECURSIVE Utf8Decode(_, _)
Utf8Decode(bs, i) ==
    IF i > Len(bs) THEN [ ok |-> TRUE, val |-> <<>> ]
    ELSE LET n == Utf8SeqLen(bs, i)
         IN  IF n = 0 THEN [ ok |-> FALSE, val |-> <<>> ]
             ELSE LET rest == Utf8Decode(bs, i + n)
                  IN  [ ok |-> rest.ok,
                        val |-> IF rest.ok
                                THEN << Utf8Scalar(bs, i, n) >> \o rest.val
                                ELSE <<>> ]

\* std::str::from_utf8
from_utf8(bs) == Utf8Decode(bs, 1)

\* the UTF-16 code units of one scalar value
Utf16Char(c) ==
    IF c < 65536 THEN << c >>
    ELSE << 55296 + ((c - 65536) \div 1024), 56320 + ((c - 65536) % 1024) >>

\* str::encode_utf16
encode_utf16(s) == Concat([ i \in 1 .. Len(s) |-> Utf16Char(s[i]) ])

IsHighSurrogate(u) == u >= 55296 /\ u <= 56319
IsLowSurrogate(u) == u >= 56320 /\ u <= 57343

RECURSIVE Utf16Decode(_, _)
Utf16Decode(us, i) ==
    IF i > Len(us) THEN [ ok |-> TRUE, val |-> <<>> ]
    ELSE IF IsLowSurrogate(us[i]) THEN [ ok |-> FALSE, val |-> <<>> ]
    ELSE IF IsHighSurrogate(us[i])
    THEN (IF i + 1 <= Len(us) /\ IsLowSurrogate(us[i + 1])
          THEN LET rest == Utf16Decode(us, i + 2)
               IN  [ ok |-> rest.ok,
                     val |-> IF rest.ok
                             THEN << 65536 + ((us[i] - 55296) * 1024)
                                           + (us[i + 1] - 56320) >> \o rest.val
                             ELSE <<>> ]
          ELSE [ ok |-> FALSE, val |-> <<>> ])
    ELSE LET rest == Utf16Decode(us, i + 1)
         IN  [ ok |-> rest.ok,
               val |-> IF rest.ok THEN << us[i] >> \o rest.val ELSE <<>> ]

\* String::from_utf16
from_utf16(us) == Utf16Decode(us, 1)

\* ------------------------------------------------------------------------
\* Heaps (heaps/strings.rs, blob.rs, us.rs, guid.rs).  A heap is
\* [data, index_map]; #US and #GUID keep no index_map (it stays empty).
\* get returns [ok, val, err]; add returns [heap, offset].
\* ------------------------------------------------------------------------
EmptyMap == [ x \in {} |-> 0 ]

GetOk(v) == [ ok |-> TRUE, val |-> v, err |-> NoErr ]
GetErr(kind, offset) ==
    [ ok |-> FALSE, val |-> <<>>,
      err |-> [ kind |-> kind, offset |-> offset, needed |-> 0 ] ]
GetFail(e) == [ ok |-> FALSE, val |-> <<>>, err |-> e ]

\* &data[offset..]
SliceFrom(data, offset) == SubSeq(data, offset + 1, Len(data))

\* position of the first zero byte of bs (0-based), or -1
FirstZero(bs) ==
    IF \E i \in 1 .. Len(bs) : bs[i] = 0
    THEN (CHOOSE i \in 1 .. Len(bs) :
              bs[i] = 0 /\ \A j \in 1 .. (i - 1) : bs[j] # 0) - 1
    ELSE 0 - 1

\* ---- #Strings ----
\* #[derive(Default)]: no data at all
StringsHeap_default == [ data |-> <<>>, index_map |-> EmptyMap ]

StringsHeap_new == [ data |-> << 0 >>, index_map |-> (<<>> :> 0) ]

StringsHeap_parse(data) == [ data |-> data, index_map |-> EmptyMap ]

StringsHeap_get(h, offset) ==
    IF offset >= Len(h.data) THEN GetErr("InvalidString", offset)
    ELSE LET end == FirstZero(SliceFrom(h.data, offset))
         IN  IF end < 0 THEN GetErr("InvalidString", offset)
             ELSE LET s == from_utf8(SubSeq(h.data, offset + 1, offset + end))
                  IN  IF s.ok THEN GetOk(s.val)
                      ELSE GetErr("InvalidString", offset)

\* an add that appends without consulting index_map
StringsHeap_add_nodedup(h, s) ==
    [ heap |-> [ data |-> h.data \o as_bytes(s) \o << 0 >>,
                 index_map |-> h.index_map @@ (s :> Len(h.data)) ],
      offset |-> Len(h.data) ]

StringsHeap_add(h, s) ==
    IF s \in DOMAIN h.index_map
    THEN [ heap |-> h, offset |-> h.index_map[s] ]
    ELSE [ heap |-> [ data |-> h.data \o as_bytes(s) \o << 0 >>,
                      index_map |-> h.index_map @@ (s :> Len(h.data)) ],
           offset |-> Len(h.data) ]

StringsHeap_write(h) == h.data

\* ---- #Blob ----
BlobHeap_default == [ data |-> <<>>, index_map |-> EmptyMap ]

BlobHeap_new == [ data |-> << 0 >>, index_map |-> (<<>> :> 0) ]

BlobHeap_parse(data) == [ data |-> data, index_map |-> EmptyMap ]

BlobHeap_get(h, offset) ==
    IF offset >= Len(h.data) THEN GetErr("InvalidBlob", offset)
    ELSE LET len == read_compressed_uint(SliceFrom(h.data, offset), 0)
         IN  IF ~len.ok THEN GetFail(len.err)
             ELSE LET blob_start == offset + len.pos
                      blob_end == blob_start + len.val
                  IN  IF blob_end > Len(h.data)
                      THEN GetErr("InvalidBlob", offset)
                      ELSE GetOk(SubSeq(h.data, blob_start + 1, blob_end))

\* an add that puts the new entry in front of the heap
BlobHeap_add_front(h, blob) ==
    [ heap |-> [ data |-> write_compressed_uint(Len(blob)) \o blob \o h.data,
                 index_map |-> h.index_map ],
      offset |-> 0 ]

BlobHeap_add(h, blob) ==
    IF blob \in DOMAIN h.index_map
    THEN [ heap |-> h, offset |-> h.index_map[blob] ]
    ELSE [ heap |-> [ data |-> h.data \o write_compressed_uint(Len(blob))
                                      \o blob,
                      index_map |-> h.index_map @@ (blob :> Len(h.data)) ],
           offset |-> Len(h.data) ]

BlobHeap_write(h) == h.data

\* ---- #US ----
UserStringsHeap_default == [ data |-> <<>>, index_map |-> EmptyMap ]

UserStringsHeap_new == [ data |-> << 0 >>, index_map |-> EmptyMap ]

UserStringsHeap_parse(data) == [ data |-> data, index_map |-> EmptyMap ]

\* chunks_exact(2) + u16::from_le_bytes
Utf16Units(bytes) ==
    [ i \in 1 .. (Len(bytes) \div 2) |->
        bytes[(2 * i) - 1] + (256 * bytes[2 * i]) ]

UserStringsHeap_get(h, offset) ==
    IF offset >= Len(h.data) THEN GetErr("InvalidUserString", offset)
    ELSE LET sub == SliceFrom(h.data, offset)
             blob_len == read_compressed_uint(sub, 0)
         IN  IF ~blob_len.ok THEN GetFail(blob_len.err)
             ELSE IF blob_len.val = 0 THEN GetOk(<<>>)
             ELSE LET str_len == blob_len.val - 1
                  IN  IF str_len % 2 # 0
                      THEN GetErr("InvalidUserString", offset)
                      ELSE LET bytes == read_bytes(sub, blob_len.pos, str_len)
                           IN  IF ~bytes.ok THEN GetFail(bytes.err)
                               ELSE LET s == from_utf16(Utf16Units(bytes.val))
                                    IN  IF s.ok THEN GetOk(s.val)
                                        ELSE GetErr("InvalidUserString",
                                                    offset)

\* the `has_special` test of one UTF-16 code unit
IsSpecialUnit(c) ==
    \/ c > 127
    \/ c \in 1 .. 8
    \/ c \in 14 .. 31
    \/ c = 39
    \/ c = 45

\* an add whose length prefix leaves out the trailing flag byte
UserStringsHeap_add_shortlen(h, s) ==
    LET utf16 == encode_utf16(s)
        has_special == \E i \in 1 .. Len(utf16) : IsSpecialUnit(utf16[i])
    IN  [ heap |-> [ data |-> h.data \o write_compressed_uint(Len(utf16) * 2)
                                     \o Concat([ i \in 1 .. Len(utf16) |->
                                                   LE(utf16[i], 2) ])
                                     \o << IF has_special THEN 1 ELSE 0 >>,
                     index_map |-> h.index_map ],
          offset |-> Len(h.data) ]

UserStringsHeap_add(h, s) ==
    LET utf16 == encode_utf16(s)
        has_special == \E i \in 1 .. Len(utf16) : IsSpecialUnit(utf16[i])
        blob_len == (Len(utf16) * 2) + 1
    IN  [ heap |-> [ data |-> h.data \o write_compressed_uint(blob_len)
                                     \o Concat([ i \in 1 .. Len(utf16) |->
                                                   LE(utf16[i], 2) ])
                                     \o << IF has_special THEN 1 ELSE 0 >>,
                     index_map |-> h.index_map ],
          offset |-> Len(h.data) ]

UserStringsHeap_write(h) == h.data

\* ---- #GUID ----
GuidHeap_new == [ data |-> <<>>, index_map |-> EmptyMap ]

GuidHeap_parse(data) == [ data |-> data, index_map |-> EmptyMap ]

NullGuid == [ i \in 1 .. 16 |-> 0 ]

GuidHeap_get(h, index) ==
    IF index = 0 THEN GetOk(NullGuid)
    ELSE LET offset == (index - 1) * 16
         IN  IF offset + 16 > Len(h.data)
             THEN GetErr("InvalidGuidIndex", index)
             ELSE GetOk(SubSeq(h.data, offset + 1, offset + 16))

GuidHeap_count(h) == Len(h.data) \div 16

\* an add that returns the 0-based position of the new GUID
GuidHeap_add_zero_based(h, guid) ==
    [ heap |-> [ data |-> h.data \o guid, index_map |-> h.index_map ],
      offset |-> Len(h.data) \div 16 ]

GuidHeap_add(h, guid) ==
    [ heap |-> [ data |-> h.data \o guid, index_map |-> h.index_map ],
      offset |-> (Len(h.data) \div 16) + 1 ]

GuidHeap_write(h) == h.data

\* ---- dispatch on the heap kind ----
\* ---- heap iterators: next() on an iterator at `offset` over heap bytes
\* `data` gives [some, at, val, offset]: the item (at, val) or None, and
\* the iterator's offset afterwards ----
IterNone(offset) == [ some |-> FALSE, at |-> 0, val |-> <<>>, offset |-> offset ]
IterSome(at, val, offset) ==
    [ some |-> TRUE, at |-> at, val |-> val, offset |-> offset ]

\* StringsIter::next: the scan leaves the offset on the terminator when the
\* bytes before it are not UTF-8, and at the end when there is none
StringsIter_next(data, offset) ==
    IF offset >= Len(data) THEN IterNone(offset)
    ELSE LET end == FirstZero(SliceFrom(data, offset))
         IN  IF end < 0 THEN IterNone(Len(data))
             ELSE LET s == from_utf8(SubSeq(data, offset + 1, offset + end))
                  IN  IF s.ok THEN IterSome(offset, s.val, offset + end + 1)
                      ELSE IterNone(offset + end)

\* UserStringsIter::next
UserStringsIter_next(data, offset) ==
    IF offset >= Len(data) THEN IterNone(offset)
    ELSE LET blob_len == read_compressed_uint(SliceFrom(data, offset), 0)
             header_size == blob_len.pos
             str_len == blob_len.val - 1
             data_end == offset + header_size + blob_len.val
             str_start == offset + header_size
         IN  IF ~blob_len.ok THEN IterNone(offset)
             ELSE IF blob_len.val = 0
             THEN IterSome(offset, <<>>, offset + header_size)
             ELSE IF str_len % 2 # 0 THEN IterNone(offset)
             ELSE IF data_end > Len(data) THEN IterNone(offset)
             ELSE LET s == from_utf16(Utf16Units(
                               SubSeq(data, str_start + 1, str_start + str_len)))
                  IN  IF s.ok THEN IterSome(offset, s.val, data_end)
                      ELSE IterNone(offset)

\* BlobIter::next: the offset moves before the bound is tested
BlobIter_next(data, offset) ==
    IF offset >= Len(data) THEN IterNone(offset)
    ELSE LET len == read_compressed_uint(SliceFrom(data, offset), 0)
             header_size == len.pos
             end == offset + header_size + len.val
         IN  IF ~len.ok THEN IterNone(offset)
             ELSE IF end > Len(data) THEN IterNone(end)
             ELSE IterSome(offset,
                           SubSeq(data, offset + header_size + 1, end), end)

Iter_next(kind, data, offset) ==
    CASE kind = "Strings" -> StringsIter_next(data, offset)
      [] kind = "US" -> UserStringsIter_next(data, offset)
      [] OTHER -> BlobIter_next(data, offset)

HeapKinds == { "Strings", "US", "GUID", "Blob" }

HeapNew(kind) ==
    CASE kind = "Strings" -> StringsHeap_new
      [] kind = "Blob" -> BlobHeap_new
      [] kind = "US" -> UserStringsHeap_new
      [] OTHER -> GuidHeap_new

\* Default::default(); GuidHeap::default() equals GuidHeap::new()
HeapDefault(kind) ==
    CASE kind = "Strings" -> StringsHeap_default
      [] kind = "Blob" -> BlobHeap_default
      [] kind = "US" -> UserStringsHeap_default
      [] OTHER -> GuidHeap_new

HeapParse(kind, data) ==
    CASE kind = "Strings" -> StringsHeap_parse(data)
      [] kind = "Blob" -> BlobHeap_parse(data)
      [] kind = "US" -> UserStringsHeap_parse(data)
      [] OTHER -> GuidHeap_parse(data)

HeapGet(kind, h, offset) ==
    CASE kind = "Strings" -> StringsHeap_get(h, offset)
      [] kind = "Blob" -> BlobHeap_get(h, offset)
      [] kind = "US" -> UserStringsHeap_get(h, offset)
      [] OTHER -> GuidHeap_get(h, offset)

HeapAdd(kind, h, x) ==
    CASE kind = "Strings" -> StringsHeap_add(h, x)
      [] kind = "Blob" -> BlobHeap_add(h, x)
      [] kind = "US" -> UserStringsHeap_add(h, x)
      [] OTHER -> GuidHeap_add(h, x)

HeapWrite(kind, h) ==
    CASE kind = "Strings" -> StringsHeap_write(h)
      [] kind = "Blob" -> BlobHeap_write(h)
      [] kind = "US" -> UserStringsHeap_write(h)
      [] OTHER -> GuidHeap_write(h)

\* ------------------------------------------------------------------------
\* Stream headers and the metadata root (stream.rs, root.rs).
\* Names and the version are strings (sequences of scalar values).
\* ------------------------------------------------------------------------
\* "#~", "#-", "#Strings", "#US", "#GUID", "#Blob"
TABLES == << 35, 126 >>
TABLES_UNCOMPRESSED == << 35, 45 >>
STRINGS == << 35, 83, 116, 114, 105, 110, 103, 115 >>
USER_STRINGS == << 35, 85, 83 >>
GUID == << 35, 71, 85, 73, 68 >>
BLOB == << 35, 66, 108, 111, 98 >>

WellKnownStreams ==
    { TABLES, TABLES_UNCOMPRESSED, STRINGS, USER_STRINGS, GUID, BLOB }

\* 0x424A5342
METADATA_SIGNATURE == 1112167234

InvalidString(offset) ==
    [ kind |-> "InvalidString", offset |-> offset, needed |-> 0 ]

\* Reader::read_null_str
read_null_str(data, pos) ==
    LET end == FirstZero(SliceFrom(data, pos))
    IN  IF end < 0
        THEN [ ok |-> FALSE, val |-> <<>>, pos |-> Len(data),
               err |-> Eof(pos, 1) ]
        ELSE LET s == from_utf8(SubSeq(data, pos + 1, pos + end))
             IN  IF s.ok
                 THEN [ ok |-> TRUE, val |-> s.val, pos |-> pos + end + 1,
                        err |-> NoErr ]
                 ELSE [ ok |-> FALSE, val |-> <<>>, pos |-> pos + end + 1,
                        err |-> InvalidString(pos) ]

\* Writer::write_null_str
write_null_str(s) == as_bytes(s) \o << 0 >>

\* (4 - (name_len_with_null % 4)) % 4
NamePadding(name_len_with_null) == (4 - (name_len_with_null % 4)) % 4

NoStream == [ offset |-> 0, size |-> 0, name |-> <<>> ]

\* StreamHeader::parse: [ok, val, pos, err]
StreamHeader_parse(data, pos) ==
    LET Fail(r) == [ ok |-> FALSE, val |-> NoStream, pos |-> r.pos,
                     err |-> r.err ]
        Padded(offset, size, name) ==
            LET padding == NamePadding(name.pos - size.pos)
                pad == read_bytes(data, name.pos, padding)
            IN  IF padding > 0 /\ ~pad.ok THEN Fail(pad)
                ELSE [ ok |-> TRUE,
                       val |-> [ offset |-> offset.val, size |-> size.val,
                                 name |-> name.val ],
                       pos |-> IF padding > 0 THEN pad.pos ELSE name.pos,
                       err |-> NoErr ]
        Named(offset, size) ==
            Bind(read_null_str(data, size.pos),
                 LAMBDA name : IF ~name.ok THEN Fail(name)
                               ELSE Padded(offset, size, name))
        Sized(offset) ==
            Bind(read_u32(data, offset.pos),
                 LAMBDA size : IF ~size.ok THEN Fail(size)
                               ELSE Named(offset, size))
    IN  Bind(read_u32(data, pos),
             LAMBDA offset : IF ~offset.ok THEN Fail(offset)
                             ELSE Sized(offset))

\* StreamHeader::write
StreamHeader_write(stream) ==
    write_u32(stream.offset) \o write_u32(stream.size)
        \o write_null_str(stream.name)
        \o [ i \in 1 .. NamePadding(Len(as_bytes(stream.name)) + 1) |-> 0 ]

\* StreamHeader::serialized_size
serialized_size(stream) ==
    LET name_len_with_null == Len(as_bytes(stream.name)) + 1
    IN  8 + name_len_with_null + NamePadding(name_len_with_null)

is_tables(stream) ==
    stream.name = TABLES \/ stream.name = TABLES_UNCOMPRESSED

NoRoot == [ major_version |-> 0, minor_version |-> 0, reserved |-> 0,
            version |-> <<>>, flags |-> 0, streams |-> <<>> ]

\* the `for _ in 0..stream_count` loop of parse_from_reader
RECURSIVE ParseStreams(_, _, _)
ParseStreams(data, pos, n) ==
    IF n = 0 THEN [ ok |-> TRUE, val |-> <<>>, pos |-> pos, err |-> NoErr ]
    ELSE LET Push(s, rest) ==
                 [ ok |-> rest.ok,
                   val |-> IF rest.ok THEN << s.val >> \o rest.val ELSE <<>>,
                   pos |-> rest.pos, err |-> rest.err ]
             Rest(s) ==
                 IF ~s.ok
                 THEN [ ok |-> FALSE, val |-> <<>>, pos |-> s.pos,
                        err |-> s.err ]
                 ELSE Bind(ParseStreams(data, s.pos, n - 1),
                           LAMBDA rest : Push(s, rest))
         IN  Bind(StreamHeader_parse(data, pos), Rest)

\* MetadataRoot::parse: [ok, val, pos, err]
MetadataRoot_parse(data) ==
    LET Fail(p, e) == [ ok |-> FALSE, val |-> NoRoot, pos |-> p, err |-> e ]
        \* the five fixed-width reads: the reader stands at 0, 4, 6, 8, 12
        signature == read_u32(data, 0)
        major == read_u16(data, 4)
        minor == read_u16(data, 6)
        reserved == read_u32(data, 8)
        Streams(version, flags, stream_count) ==
            Bind(ParseStreams(data, stream_count.pos, stream_count.val),
                 LAMBDA streams :
                     IF ~streams.ok THEN Fail(streams.pos, streams.err)
                     ELSE [ ok |-> TRUE,
                            val |-> [ major_version |-> major.val,
                                      minor_version |-> minor.val,
                                      reserved |-> reserved.val,
                                      version |-> version.val,
                                      flags |-> flags.val,
                                      streams |-> streams.val ],
                            pos |-> streams.pos, err |-> NoErr ])
        Counted(version, flags) ==
            Bind(read_u16(data, flags.pos),
                 LAMBDA stream_count :
                     IF ~stream_count.ok
                     THEN Fail(stream_count.pos, stream_count.err)
                     ELSE Streams(version, flags, stream_count))
        Flagged(version_bytes, version) ==
            Bind(read_u16(data, version_bytes.pos),
                 LAMBDA flags : IF ~flags.ok THEN Fail(flags.pos, flags.err)
                                ELSE Counted(version, flags))
        Versioned(version_bytes) ==
            LET zero == FirstZero(version_bytes.val)
            IN  Bind(from_utf8(IF zero < 0 THEN version_bytes.val
                               ELSE SubSeq(version_bytes.val, 1, zero)),
                     LAMBDA version :
                         IF ~version.ok
                         THEN Fail(version_bytes.pos,
                                   InvalidString(version_bytes.pos))
                         ELSE Flagged(version_bytes, version))
        Sized(version_len) ==
            Bind(read_bytes(data, version_len.pos, version_len.val),
                 LAMBDA version_bytes :
                     IF ~version_bytes.ok
                     THEN Fail(version_bytes.pos, version_bytes.err)
                     ELSE Versioned(version_bytes))
    IN  IF ~signature.ok THEN Fail(signature.pos, signature.err)
        ELSE IF signature.val # METADATA_SIGNATURE
        THEN Fail(signature.pos,
                  [ kind |-> "InvalidSignature", offset |-> signature.val,
                    needed |-> 0 ])
        ELSE IF ~major.ok THEN Fail(major.pos, major.err)
        ELSE IF ~minor.ok THEN Fail(minor.pos, minor.err)
        ELSE IF ~reserved.ok THEN Fail(reserved.pos, reserved.err)
        ELSE Bind(read_u32(data, 12),
                  LAMBDA version_len :
                      IF ~version_len.ok
                      THEN Fail(version_len.pos, version_len.err)
                      ELSE Sized(version_len))

\* MetadataRoot::write_to
MetadataRoot_write(root) ==
    LET version_bytes == as_bytes(root.version)
        version_len_with_null == Len(version_bytes) + 1
        padded_len == Align4(version_len_with_null)
    IN  write_u32(METADATA_SIGNATURE)
            \o write_u16(root.major_version) \o write_u16(root.minor_version)
            \o write_u32(root.reserved)
            \o write_u32(padded_len) \o version_bytes \o << 0 >>
            \o [ i \in 1 .. (padded_len - version_len_with_null) |-> 0 ]
            \o write_u16(root.flags)
            \o write_u16(Len(root.streams) % 65536)
            \o Concat([ i \in 1 .. Len(root.streams) |->
                          StreamHeader_write(root.streams[i]) ])

\* MetadataRoot::header_size
header_size(root) ==
    LET padded_version_len == Align4(Len(as_bytes(root.version)) + 1)
    IN  4 + 2 + 2 + 4 + 4 + padded_version_len + 2 + 2
          + SumSeq([ i \in 1 .. Len(root.streams) |->
                       serialized_size(root.streams[i]) ])

\* index of the first stream satisfying P, 0 if none (Iterator::find)
FirstStream(root, P(_)) ==
    IF \E i \in 1 .. Len(root.streams) : P(root.streams[i])
    THEN CHOOSE i \in 1 .. Len(root.streams) :
            /\ P(root.streams[i])
            /\ \A j \in 1 .. (i - 1) : ~P(root.streams[j])
    ELSE 0

\* MetadataRoot::find_stream
find_stream(root, name) == LET P(s) == s.name = name IN FirstStream(root, P)

\* MetadataRoot::tables_stream
tables_stream(root) == FirstStream(root, is_tables)

\* ------------------------------------------------------------------------
\* TablesHeader (tables/header.rs).  valid and sorted are u64 masks, kept as
\* the sets of their set bits.
\* ------------------------------------------------------------------------
NoHeader == [ reserved |-> 0, major_version |-> 0, minor_version |-> 0,
              heap_sizes |-> 0, reserved2 |-> 0, valid |-> {}, sorted |-> {},
              row_counts |-> [ i \in RowCountSlots |-> 0 ] ]

\* the `for i in 0..64` loop of TablesHeader::parse, from slot i on
RECURSIVE ReadRowCounts(_, _, _, _)
ReadRowCounts(data, pos, valid, i) ==
    IF i > 63
    THEN [ ok |-> TRUE, val |-> [ j \in RowCountSlots |-> 0 ], pos |-> pos,
           err |-> NoErr ]
    ELSE IF i \in valid
    THEN LET Rest(c) ==
                 IF ~c.ok
                 THEN [ ok |-> FALSE, val |-> [ j \in RowCountSlots |-> 0 ],
                        pos |-> c.pos, err |-> c.err ]
                 ELSE Bind(ReadRowCounts(data, c.pos, valid, i + 1),
                           LAMBDA rest :
                               [ rest EXCEPT
                                   !.val[i] = IF rest.ok THEN c.val ELSE 0 ])
         IN  Bind(read_u32(data, pos), Rest)
    ELSE ReadRowCounts(data, pos, valid, i + 1)

\* TablesHeader::parse: [ok, val, pos, err]
TablesHeader_parse(data, pos) ==
    LET Fail(r) == [ ok |-> FALSE, val |-> NoHeader, pos |-> r.pos,
                     err |-> r.err ]
        \* the five fixed-width reads: the reader stands at pos, pos + 4,
        \* pos + 5, pos + 6 and pos + 7
        reserved == read_u32(data, pos)
        major == read_u8(data, pos + 4)
        minor == read_u8(data, pos + 5)
        heap_sizes == read_u8(data, pos + 6)
        reserved2 == read_u8(data, pos + 7)
        Counted(valid, sorted) ==
            Bind(ReadRowCounts(data, sorted.pos, valid.val, 0),
                 LAMBDA counts :
                     IF ~counts.ok THEN Fail(counts)
                     ELSE [ ok |-> TRUE,
                            val |-> [ reserved |-> reserved.val,
                                      major_version |-> major.val,
                                      minor_version |-> minor.val,
                                      heap_sizes |-> heap_sizes.val,
                                      reserved2 |-> reserved2.val,
                                      valid |-> valid.val,
                                      sorted |-> sorted.val,
                                      row_counts |-> counts.val ],
                            pos |-> counts.pos, err |-> NoErr ])
        Sorted(valid) ==
            Bind(read_u64(data, valid.pos),
                 LAMBDA sorted : IF ~sorted.ok THEN Fail(sorted)
                                 ELSE Counted(valid, sorted))
    IN  IF ~reserved.ok THEN Fail(reserved)
        ELSE IF ~major.ok THEN Fail(major)
        ELSE IF ~minor.ok THEN Fail(minor)
        ELSE IF ~heap_sizes.ok THEN Fail(heap_sizes)
        ELSE IF ~reserved2.ok THEN Fail(reserved2)
        ELSE Bind(read_u64(data, reserved2.pos),
                  LAMBDA valid : IF ~valid.ok THEN Fail(valid)
                                 ELSE Sorted(valid))

\* TablesHeader::write_to
TablesHeader_write(header) ==
    write_u32(header.reserved)
        \o write_u8(header.major_version) \o write_u8(header.minor_version)
        \o write_u8(header.heap_sizes) \o write_u8(header.reserved2)
        \o write_u64(header.valid) \o write_u64(header.sorted)
        \o Concat([ i \in 1 .. 64 |->
                      IF (i - 1) \in header.valid
                      THEN write_u32(header.row_counts[i - 1]) ELSE <<>> ])

has_table(header, table) == table \in header.valid

row_count(header, table) == header.row_counts[table]

\* a set_row_count that never clears the valid bit
set_row_count_keep_valid(header, table, count) ==
    [ header EXCEPT !.valid = @ \cup { table },
                    !.row_counts[table] = count ]

\* TablesHeader::set_row_count
set_row_count(header, table, count) ==
    [ header EXCEPT !.valid = IF count > 0 THEN @ \cup { table }
                              ELSE @ \ { table },
                    !.row_counts[table] = count ]

\* TablesHeader::context
context(header) ==
    [ heap_sizes |-> header.heap_sizes, row_counts |-> header.row_counts ]

\* TablesHeader::size
TablesHeader_size(header) == 24 + (Cardinality(header.valid) * 4)

\* TablesHeader::tables: the valid bits that TableId::from_u8 accepts, in
\* ascending order, each with its row count
RECURSIVE TablesFrom(_, _)
TablesFrom(header, i) ==
    IF i > 63 THEN <<>>
    ELSE (IF i \in header.valid /\ i \in TableIds
          THEN << [ table |-> i, count |-> header.row_counts[i] ] >>
          ELSE <<>>) \o TablesFrom(header, i + 1)

TablesHeader_tables(header) == TablesFrom(header, 0)

\* ------------------------------------------------------------------------
\* Metadata (metadata.rs): [root, strings, user_strings, guids, blobs,
\* tables_header, rows], rows being the row vectors keyed by table id.
\* ------------------------------------------------------------------------
\* the calls of Metadata::parse, in the order the source makes them
ParseCall(t) == [ table |-> t, skip |-> FALSE ]
SkipCall(t) == [ table |-> t, skip |-> TRUE ]

\* a parse that reads AssemblyRef before it skips AssemblyOs
ParseOrder_AssemblyRefEarly ==
    << ParseCall(Module), ParseCall(TypeRef), ParseCall(TypeDef),
       ParseCall(FieldPtr), ParseCall(Field), ParseCall(MethodPtr),
       ParseCall(MethodDef), ParseCall(ParamPtr), ParseCall(Param),
       ParseCall(InterfaceImpl), ParseCall(MemberRef), ParseCall(Constant),
       ParseCall(CustomAttribute), ParseCall(FieldMarshal),
       ParseCall(DeclSecurity), ParseCall(ClassLayout),
       ParseCall(FieldLayout), ParseCall(StandAloneSig), ParseCall(EventMap),
       ParseCall(EventPtr), ParseCall(Event), ParseCall(PropertyMap),
       ParseCall(PropertyPtr), ParseCall(Property),
       ParseCall(MethodSemantics), ParseCall(MethodImpl),
       ParseCall(ModuleRef), ParseCall(TypeSpec), ParseCall(ImplMap),
       ParseCall(FieldRva), ParseCall(EncLog), ParseCall(EncMap),
       ParseCall(Assembly), SkipCall(AssemblyProcessor),
       ParseCall(AssemblyRef), SkipCall(AssemblyOs),
       SkipCall(AssemblyRefProcessor), SkipCall(AssemblyRefOs),
       SkipCall(File), SkipCall(ExportedType), SkipCall(ManifestResource),
       ParseCall(NestedClass), ParseCall(GenericParam),
       ParseCall(MethodSpec), ParseCall(GenericParamConstraint) >>

ParseOrder ==
    << ParseCall(Module), ParseCall(TypeRef), ParseCall(TypeDef),
       ParseCall(FieldPtr), ParseCall(Field), ParseCall(MethodPtr),
       ParseCall(MethodDef), ParseCall(ParamPtr), ParseCall(Param),
       ParseCall(InterfaceImpl), ParseCall(MemberRef), ParseCall(Constant),
       ParseCall(CustomAttribute), ParseCall(FieldMarshal),
       ParseCall(DeclSecurity), ParseCall(ClassLayout),
       ParseCall(FieldLayout), ParseCall(StandAloneSig), ParseCall(EventMap),
       ParseCall(EventPtr), ParseCall(Event), ParseCall(PropertyMap),
       ParseCall(PropertyPtr), ParseCall(Property),
       ParseCall(MethodSemantics), ParseCall(MethodImpl),
       ParseCall(ModuleRef), ParseCall(TypeSpec), ParseCall(ImplMap),
       ParseCall(FieldRva), ParseCall(EncLog), ParseCall(EncMap),
       ParseCall(Assembly), SkipCall(AssemblyProcessor),
       SkipCall(AssemblyOs), ParseCall(AssemblyRef),
       SkipCall(AssemblyRefProcessor), SkipCall(AssemblyRefOs),
       SkipCall(File), SkipCall(ExportedType), SkipCall(ManifestResource),
       ParseCall(NestedClass), ParseCall(GenericParam),
       ParseCall(MethodSpec), ParseCall(GenericParamConstraint) >>

NoRows == [ t \in ModeledTables |-> <<>> ]

NoMetadata ==
    [ root |-> NoRoot, strings |-> StringsHeap_default,
      user_strings |-> UserStringsHeap_default, guids |-> GuidHeap_new,
      blobs |-> BlobHeap_default, tables_header |-> NoHeader,
      rows |-> NoRows ]

HeapStreamName(kind) ==
    CASE kind = "Strings" -> STRINGS
      [] kind = "US" -> USER_STRINGS
      [] kind = "GUID" -> GUID
      [] OTHER -> BLOB

\* Metadata::parse_heap
parse_heap(root, data, kind) ==
    LET i == find_stream(root, HeapStreamName(kind))
    IN  IF i # 0 /\ root.streams[i].offset + root.streams[i].size <= Len(data)
        THEN HeapParse(kind, SubSeq(data, root.streams[i].offset + 1,
                                    root.streams[i].offset
                                        + root.streams[i].size))
        ELSE HeapDefault(kind)

\* the `for _ in 0..count` loop of Metadata::parse_table
RECURSIVE ParseRows(_, _, _, _, _)
ParseRows(table, c, data, pos, count) ==
    IF count = 0 THEN [ ok |-> TRUE, val |-> <<>>, pos |-> pos, err |-> NoErr ]
    ELSE LET Push(r, rest) ==
                 [ ok |-> rest.ok,
                   val |-> IF rest.ok THEN << r.row >> \o rest.val ELSE <<>>,
                   pos |-> rest.pos, err |-> rest.err ]
             Rest(r) ==
                 IF ~r.ok
                 THEN [ ok |-> FALSE, val |-> <<>>, pos |-> r.pos,
                        err |-> r.err ]
                 ELSE Bind(ParseRows(table, c, data, r.pos, count - 1),
                           LAMBDA rest : Push(r, rest))
         IN  Bind(ParseRow(table, c, data, pos), Rest)

\* Metadata::parse_table
parse_table(data, pos, c, table) ==
    ParseRows(table, c, data, pos, row_count(c, table))

\* Metadata::skip_table
skip_table(data, pos, c, table) ==
    read_bytes(data, pos, row_count(c, table) * row_size(c, table))

\* uses_wide_indices of the heaps
uses_wide_indices(kind, h) ==
    IF kind = "GUID" THEN GuidHeap_count(h) > 65535 ELSE Len(h.data) > 65535

\* Metadata::calculate_heap_sizes
calculate_heap_sizes(m) ==
    (IF uses_wide_indices("Strings", m.strings) THEN 1 ELSE 0)
      + (IF uses_wide_indices("GUID", m.guids) THEN 2 ELSE 0)
      + (IF uses_wide_indices("Blob", m.blobs) THEN 4 ELSE 0)

\* ---- Metadata::validate ----
\* the validate_*_index calls made for each row of a table, in source order:
\* [field, k] with k the helper, and t the table whose length is max_rows
ValidateCalls(table) ==
    CASE table = Module -> << FStr("name"), FGuid("mvid") >>
      [] table = TypeRef -> << FStr("type_name"), FStr("type_namespace") >>
      [] table = TypeDef ->
            << FStr("type_name"), FStr("type_namespace"),
               FTbl("field_list", Field), FTbl("method_list", MethodDef) >>
      [] table = Field -> << FStr("name"), FBlob("signature") >>
      [] table = MethodDef ->
            << FStr("name"), FBlob("signature"), FTbl("param_list", Param) >>
      [] table = Param -> << FStr("name") >>
      [] table = MemberRef -> << FStr("name"), FBlob("signature") >>
      [] table = Constant -> << FBlob("value") >>
      [] table = CustomAttribute -> << FBlob("value") >>
      [] table = Assembly ->
            << FStr("name"), FStr("culture"), FBlob("public_key") >>
      [] table = AssemblyRef ->
            << FStr("name"), FStr("culture"), FBlob("public_key_or_token"),
               FBlob("hash_value") >>
      [] OTHER -> <<>>

\* the tables validate walks, in source order
ValidateOrder ==
    << Module, TypeRef, TypeDef, Field, MethodDef, Param, MemberRef, Constant,
       CustomAttribute, Assembly, AssemblyRef >>

\* validate_string_index / validate_guid_index / validate_blob_index /
\* validate_table_index: the errors one call pushes
validate_index(m, table, row, f, index) ==
    LET bad ==
          CASE f.k = "str" ->
                  index # 0 /\ ~StringsHeap_get(m.strings, index).ok
            [] f.k = "guid" ->
                  index # 0 /\ ~GuidHeap_get(m.guids, index).ok
            [] f.k = "blob" ->
                  index # 0 /\ ~BlobHeap_get(m.blobs, index).ok
            [] OTHER -> index > Len(m.rows[f.t]) + 1
    IN  IF bad
        THEN << [ table |-> table, row |-> row, field |-> f.n, kind |-> f.k,
                  index |-> index ] >>
        ELSE <<>>

\* Metadata::validate: the list of errors
validate(m) ==
    (IF m.rows[Module] = <<>>
     THEN << [ table |-> Module, row |-> 0, field |-> "", kind |-> "required",
               index |-> 0 ] >>
     ELSE <<>>)
      \o Concat([ o \in 1 .. Len(ValidateOrder) |->
           LET table == ValidateOrder[o]
               calls == ValidateCalls(table)
           IN  Concat([ i \in 1 .. Len(m.rows[table]) |->
                 Concat([ c \in 1 .. Len(calls) |->
                   validate_index(m, table, i - 1, calls[c],
                                  m.rows[table][i][calls[c].n]) ]) ]) ])

\* Metadata::calculate_tables_size
calculate_tables_size(m) ==
    LET c == context(m.tables_header)
        ts == TablesHeader_tables(m.tables_header)
    IN  TablesHeader_size(m.tables_header)
          + SumSeq([ i \in 1 .. Len(ts) |->
                       ts[i].count * row_size(c, ts[i].table) ])

\* the tables whose row count write_tables sets, and whose rows it writes,
\* in the order of the source
WriteOrder ==
    << Module, TypeRef, TypeDef, FieldPtr, Field, MethodPtr, MethodDef,
       ParamPtr, Param, InterfaceImpl, MemberRef, Constant, CustomAttribute,
       FieldMarshal, DeclSecurity, ClassLayout, FieldLayout, StandAloneSig,
       EventMap, EventPtr, Event, PropertyMap, PropertyPtr, Property,
       MethodSemantics, MethodImpl, ModuleRef, TypeSpec, ImplMap, FieldRva,
       EncLog, EncMap, Assembly, AssemblyRef, NestedClass, GenericParam,
       MethodSpec, GenericParamConstraint >>

RECURSIVE SetRowCounts(_, _, _)
SetRowCounts(header, rows, i) ==
    IF i > Len(WriteOrder) THEN header
    ELSE SetRowCounts(set_row_count(header, WriteOrder[i],
                                    Len(rows[WriteOrder[i]])),
                      rows, i + 1)

\* the header write_tables emits
WrittenHeader(m, heap_sizes) ==
    SetRowCounts([ m.tables_header EXCEPT !.heap_sizes = heap_sizes ],
                 m.rows, 1)

\* Metadata::write_tables
write_tables(m, heap_sizes) ==
    LET Rows(header, c) ==
            TablesHeader_write(header)
              \o Concat([ i \in 1 .. Len(WriteOrder) |->
                            Concat([ j \in 1 .. Len(m.rows[WriteOrder[i]]) |->
                                       WriteRow(WriteOrder[i], c,
                                                m.rows[WriteOrder[i]][j]) ]) ])
    IN  Bind(WrittenHeader(m, heap_sizes),
             LAMBDA header : Bind(context(header),
                                  LAMBDA c : Rows(header, c)))

\* the first loop of write_to: offsets and sizes of the stream headers
RECURSIVE LayoutStreams(_, _, _, _)
LayoutStreams(m, streams, i, current_offset) ==
    IF i > Len(streams) THEN streams
    ELSE LET name == streams[i].name
             size ==
               CASE name = TABLES \/ name = TABLES_UNCOMPRESSED ->
                        calculate_tables_size(m)
                 [] name = STRINGS -> Len(m.strings.data)
                 [] name = USER_STRINGS -> Len(m.user_strings.data)
                 [] name = GUID -> Len(m.guids.data)
                 [] name = BLOB -> Len(m.blobs.data)
                 [] OTHER -> streams[i].size
             Placed(sz) ==
                 [ streams |-> [ streams EXCEPT ![i].offset = current_offset,
                                                ![i].size = sz ],
                   next |-> Align4(current_offset + sz) ]
         IN  Bind(Bind(size, Placed),
                  LAMBDA p : LayoutStreams(m, p.streams, i + 1, p.next))

\* the bytes the second loop of write_to emits for one stream
StreamContent(m, name, heap_sizes) ==
    CASE name = TABLES \/ name = TABLES_UNCOMPRESSED ->
             write_tables(m, heap_sizes)
      [] name = STRINGS -> StringsHeap_write(m.strings)
      [] name = USER_STRINGS -> UserStringsHeap_write(m.user_strings)
      [] name = GUID -> GuidHeap_write(m.guids)
      [] name = BLOB -> BlobHeap_write(m.blobs)
      [] OTHER -> <<>>

\* the second loop of write_to from stream i on: the writer's bytes and, for
\* every stream, where its content starts and how long it is
RECURSIVE EmitStreams(_, _, _, _, _, _)
EmitStreams(m, streams, heap_sizes, i, bytes, placed) ==
    IF i > Len(streams) THEN [ bytes |-> bytes, placed |-> placed ]
    ELSE LET Emitted(content) ==
                 LET written == bytes \o content
                 IN  [ bytes |-> written \o AlignPad(Len(written), 4),
                       placed |-> Append(placed, [ start |-> Len(bytes),
                                                   len |-> Len(content) ]) ]
         IN  Bind(Bind(StreamContent(m, streams[i].name, heap_sizes),
                       Emitted),
                  LAMBDA e : EmitStreams(m, streams, heap_sizes, i + 1,
                                         e.bytes, e.placed))

\* Metadata::write_to: [bytes, root, placed, header]
write_to(m) ==
    LET Emit(heap_sizes, root) ==
            Bind(EmitStreams(m, root.streams, heap_sizes, 1,
                             MetadataRoot_write(root), <<>>),
                 LAMBDA e : [ bytes |-> e.bytes, root |-> root,
                              placed |-> e.placed,
                              header |-> WrittenHeader(m, heap_sizes) ])
        Layout(heap_sizes) ==
            Bind([ m.root EXCEPT
                     !.streams = LayoutStreams(m, m.root.streams, 1,
                                               header_size(m.root)) ],
                 LAMBDA root : Emit(heap_sizes, root))
    IN  Bind(calculate_heap_sizes(m), Layout)

\* ------------------------------------------------------------------------
\* Sample rows
\* ------------------------------------------------------------------------
\* Field values.  Odd sample rows draw from values that fit two bytes, even
\* ones from values that include the first 17-bit value and a 4-byte value.
SmallVals == << 1, 258, 65535, 127, 0 >>
BigVals == << 65536, 16909060, 258, 65535, 70000 >>
RowVals(p) == IF p % 2 = 1 THEN SmallVals ELSE BigVals

\* value of the i-th field of sample row p
FieldSample(f, i, p) ==
    LET v == RowVals(p)[((i + p) % Len(RowVals(p))) + 1]
    IN  CASE f.k = "u8" -> v % 256
          [] f.k = "u16" -> v % 65536
          [] f.k = "coded" ->
                [ table |-> tables(f.c)[((i + p) % Len(tables(f.c))) + 1],
                  row |-> v ]
          [] OTHER -> v

SampleRow(table, p) ==
    LET fs == RowParseFields(table)
    IN  [ n \in { fs[i].n : i \in 1 .. Len(fs) } |->
            LET i == CHOOSE j \in 1 .. Len(fs) : fs[j].n = n
            IN  FieldSample(fs[i], i, p) ]

\* ------------------------------------------------------------------------
\* Input blobs handed to Metadata::parse.  A blob is laid out from a small
\* description: the version string, the stream names in declaration order,
\* the heap-size flags of the tables header and the row count per table.
\* ------------------------------------------------------------------------
\* "#Pdb", a stream name the library does not know
PDB == << 35, 80, 100, 98 >>

\* "v4" and "v4.0": one and four bytes of padding after the terminator
InputVersions == { << 118, 52 >>, << 118, 52, 46, 48 >> }

InputStreamOrders ==
    { << TABLES, STRINGS, USER_STRINGS, GUID, BLOB >>,
      << STRINGS, BLOB, TABLES >>,
      << TABLES_UNCOMPRESSED, STRINGS >>,
      << TABLES, PDB, STRINGS >> }

NoTables == [ t \in TableIds |-> 0 ]

\* row counts per table
InputTableSets ==
    { NoTables,
      [ NoTables EXCEPT ![Module] = 1 ],
      [ NoTables EXCEPT ![Module] = 1, ![TypeRef] = 1 ],
      [ NoTables EXCEPT ![TypeRef] = 1 ],
      [ NoTables EXCEPT ![Module] = 1, ![TypeRef] = 2, ![AssemblyRef] = 1,
                        ![GenericParamConstraint] = 1 ],
      [ NoTables EXCEPT ![Module] = 1, ![File] = 1, ![NestedClass] = 1 ],
      [ NoTables EXCEPT ![TypeDef] = 1, ![FieldPtr] = 1 ],
      [ NoTables EXCEPT ![Module] = 1, ![Assembly] = 1,
                        ![ManifestResource] = 2, ![MethodSpec] = 1 ] }

\* heap_sizes of the input's tables header: narrow indices, or 4-byte
\* #Strings indices
InputHeapSizes == { 0, 1 }

\* ECMA-335 II.22 row widths of the tables the library does not model
UnmodeledRowWidth(c, table) ==
    CASE table = AssemblyProcessor -> 4
      [] table = AssemblyOs -> 12
      [] table = AssemblyRefProcessor -> 4 + table_index_size(c, AssemblyRef)
      [] table = AssemblyRefOs -> 12 + table_index_size(c, AssemblyRef)
      [] table = File -> 4 + string_index_size(c) + blob_index_size(c)
      [] table = ExportedType ->
            8 + (2 * string_index_size(c))
              + coded_index_size(c, "Implementation")
      [] OTHER -> 8 + string_index_size(c)
                    + coded_index_size(c, "Implementation")

\* the bytes of row j of a table in the input
InputRowBytes(c, table, j) ==
    IF table \in UnmodeledTables
    THEN [ i \in 1 .. UnmodeledRowWidth(c, table) |-> 160 + i + j ]
    ELSE WriteRow(table, c, SampleRow(table, (2 * j) - 1))

InputHeader(counts, hs) ==
    [ reserved |-> 0, major_version |-> 2, minor_version |-> 0,
      heap_sizes |-> hs, reserved2 |-> 1,
      valid |-> { t \in TableIds : counts[t] > 0 }, sorted |-> {},
      row_counts |-> [ i \in RowCountSlots |->
                         IF i \in TableIds THEN counts[i] ELSE 0 ] ]

\* all rows of one table in the input
InputTableBytes(counts, hs, table) ==
    Concat([ j \in 1 .. counts[table] |->
               InputRowBytes(context(InputHeader(counts, hs)), table, j) ])

\* the tables stream of the input: header, then the rows by ascending id
InputTablesStream(counts, hs) ==
    TablesHeader_write(InputHeader(counts, hs))
      \o Concat([ i \in 1 .. 45 |-> InputTableBytes(counts, hs, i - 1) ])

\* where the rows of each table start inside the input's tables stream
InputTablePos(counts, hs) ==
    [ t \in TableIds |->
        TablesHeader_size(InputHeader(counts, hs))
          + SumSeq([ i \in 1 .. t |->
                       Len(InputTableBytes(counts, hs, i - 1)) ]) ]

InputStreamBytes(name, counts, hs) ==
    CASE name = TABLES \/ name = TABLES_UNCOMPRESSED ->
            InputTablesStream(counts, hs)
      [] name = STRINGS -> << 0, 65, 0 >>
      [] name = USER_STRINGS -> << 0, 3, 65, 0, 0 >>
      [] name = GUID -> [ i \in 1 .. 16 |-> i ]
      [] name = BLOB -> << 0, 1, 7 >>
      [] OTHER -> << 1, 2, 3, 4 >>

\* stream headers with contiguous, 4-aligned offsets from `offset` on
RECURSIVE InputStreamHeaders(_, _, _, _)
InputStreamHeaders(names, counts, hs, offset) ==
    IF names = <<>> THEN <<>>
    ELSE Bind(Len(InputStreamBytes(Head(names), counts, hs)),
              LAMBDA size :
                  << [ offset |-> offset, size |-> size,
                       name |-> Head(names) ] >>
                    \o Bind(Align4(offset + size),
                            LAMBDA next :
                                InputStreamHeaders(Tail(names), counts, hs,
                                                   next)))

InputRoot(version, names, counts, hs) ==
    LET bare == [ major_version |-> 1, minor_version |-> 1, reserved |-> 0,
                  version |-> version, flags |-> 0,
                  streams |-> [ i \in 1 .. Len(names) |->
                                  [ offset |-> 0, size |-> 0,
                                    name |-> names[i] ] ] ]
    IN  [ bare EXCEPT !.streams =
              InputStreamHeaders(names, counts, hs, header_size(bare)) ]

\* bytes missing at the end of the slice handed to parse: none, or enough
\* to leave the last stream's declared range outside the slice
InputCuts == { 0, 2 }

\* the input blob
InputBlob(version, names, counts, hs) ==
    MetadataRoot_write(InputRoot(version, names, counts, hs))
      \o Concat([ i \in 1 .. Len(names) |->
                    LET b == InputStreamBytes(names[i], counts, hs)
                    IN  b \o AlignPad(Len(b), 4) ])

\* ------------------------------------------------------------------------
\* Signature blobs (signature.rs, ECMA-335 II.23.2)
\* ------------------------------------------------------------------------
InvalidBlob(pos) == [ kind |-> "InvalidBlob", offset |-> pos, needed |-> 0 ]

\* Reader::peek_u8: the byte at the cursor, the cursor left where it is
peek_u8(data, pos) ==
    IF pos >= Len(data)
    THEN [ ok |-> FALSE, val |-> 0, pos |-> pos, err |-> Eof(pos, 1) ]
    ELSE [ ok |-> TRUE, val |-> data[pos + 1], pos |-> pos, err |-> NoErr ]

\* Reader::read_compressed_int: the unsigned encoding, its low bit the sign,
\* (u >> 1) ^ -(u & 1)
read_compressed_int(data, pos) ==
    LET u == read_compressed_uint(data, pos)
    IN  IF ~u.ok THEN u
        ELSE [ u EXCEPT !.val = IF u.val % 2 = 0 THEN u.val \div 2
                                ELSE (0 - (u.val \div 2)) - 1 ]

\* CallingConvention::GENERIC
GENERIC == 16

\* the element byte that marks the vararg boundary
SENTINEL == 65

\* element bytes of TypeSig::Primitive
PrimitiveElems == (1 .. 14) \cup { 22, 24, 25, 28 }

\* a TypeSig value: the variant, its number (element byte, token, index,
\* modifier or rank), its flag (is_value_type, required), its boxed types
TypeVal(tag, n, flag, args) ==
    [ tag |-> tag, n |-> n, flag |-> flag, args |-> args, sizes |-> <<>>,
      lo_bounds |-> <<>> ]

SigOk(val, pos) == [ ok |-> TRUE, val |-> val, pos |-> pos, err |-> NoErr ]
SigErr(r) == [ ok |-> FALSE, val |-> <<>>, pos |-> r.pos, err |-> r.err ]

\* `for _ in 0..n { v.push(reader.read_compressed_[u]int()?) }`
RECURSIVE ReadInts(_, _, _, _)
ReadInts(data, pos, n, signed) ==
    IF n = 0 THEN SigOk(<<>>, pos)
    ELSE Bind(IF signed THEN read_compressed_int(data, pos)
              ELSE read_compressed_uint(data, pos),
              LAMBDA x :
                IF ~x.ok THEN SigErr(x)
                ELSE Bind(ReadInts(data, x.pos, n - 1, signed),
                          LAMBDA rest :
                            IF ~rest.ok THEN rest
                            ELSE SigOk(<< x.val >> \o rest.val, rest.pos)))

RECURSIVE TypeSig_parse(_, _)
RECURSIVE MethodSig_parse(_, _)

\* `for _ in 0..n { type_args.push(TypeSig::parse(reader)?) }`
RECURSIVE ParseTypes(_, _, _)
ParseTypes(data, pos, n) ==
    IF n = 0 THEN SigOk(<<>>, pos)
    ELSE Bind(TypeSig_parse(data, pos),
              LAMBDA t :
                IF ~t.ok THEN t
                ELSE Bind(ParseTypes(data, t.pos, n - 1),
                          LAMBDA rest :
                            IF ~rest.ok THEN rest
                            ELSE SigOk(<< t.val >> \o rest.val, rest.pos)))

\* an arm that reads a compressed number: Class, ValueType, Var, MVar
TypeSig_token(tag, data, pos) ==
    Bind(read_compressed_uint(data, pos),
         LAMBDA token :
           IF ~token.ok THEN SigErr(token)
           ELSE SigOk(TypeVal(tag, token.val, FALSE, <<>>), token.pos))

\* an arm that boxes one nested type: SzArray, Ptr, ByRef, Pinned
TypeSig_boxed(tag, data, pos) ==
    Bind(TypeSig_parse(data, pos),
         LAMBDA inner :
           IF ~inner.ok THEN inner
           ELSE SigOk(TypeVal(tag, 0, FALSE, << inner.val >>), inner.pos))

\* the CModReqd and CModOpt arms
TypeSig_modified(required, data, pos) ==
    Bind(read_compressed_uint(data, pos),
         LAMBDA modifier :
           IF ~modifier.ok THEN SigErr(modifier)
           ELSE Bind(TypeSig_parse(data, modifier.pos),
                     LAMBDA inner :
                       IF ~inner.ok THEN inner
                       ELSE SigOk(TypeVal("Modified", modifier.val, required,
                                          << inner.val >>), inner.pos)))

\* the Array arm
TypeSig_array(data, pos) ==
    Bind(TypeSig_parse(data, pos),
         LAMBDA elem_type :
    IF ~elem_type.ok THEN elem_type ELSE
    Bind(read_compressed_uint(data, elem_type.pos),
         LAMBDA rank :
    IF ~rank.ok THEN SigErr(rank) ELSE
    Bind(read_compressed_uint(data, rank.pos),
         LAMBDA num_sizes :
    IF ~num_sizes.ok THEN SigErr(num_sizes) ELSE
    Bind(ReadInts(data, num_sizes.pos, num_sizes.val, FALSE),
         LAMBDA sizes :
    IF ~sizes.ok THEN sizes ELSE
    Bind(read_compressed_uint(data, sizes.pos),
         LAMBDA num_lo_bounds :
    IF ~num_lo_bounds.ok THEN SigErr(num_lo_bounds) ELSE
    Bind(ReadInts(data, num_lo_bounds.pos, num_lo_bounds.val, TRUE),
         LAMBDA lo_bounds :
    IF ~lo_bounds.ok THEN lo_bounds ELSE
    SigOk([ TypeVal("Array", rank.val, FALSE, << elem_type.val >>)
              EXCEPT !.sizes = sizes.val, !.lo_bounds = lo_bounds.val ],
          lo_bounds.pos)))))))

\* the GenericInst arm
TypeSig_generic(data, pos) ==
    Bind(read_u8(data, pos),
         LAMBDA kind :
    IF ~kind.ok THEN SigErr(kind) ELSE
    Bind(read_compressed_uint(data, kind.pos),
         LAMBDA type_ref :
    IF ~type_ref.ok THEN SigErr(type_ref) ELSE
    Bind(read_compressed_uint(data, type_ref.pos),
         LAMBDA gen_arg_count :
    IF ~gen_arg_count.ok THEN SigErr(gen_arg_count) ELSE
    Bind(ParseTypes(data, gen_arg_count.pos, gen_arg_count.val),
         LAMBDA type_args :
    IF ~type_args.ok THEN type_args ELSE
    SigOk(TypeVal("GenericInst", type_ref.val, kind.val = 17, type_args.val),
          type_args.pos)))))

\* the FnPtr arm
TypeSig_fnptr(data, pos) ==
    Bind(MethodSig_parse(data, pos),
         LAMBDA method_sig :
           IF ~method_sig.ok THEN SigErr(method_sig)
           ELSE SigOk(TypeVal("FnPtr", 0, FALSE, << method_sig.val >>),
                      method_sig.pos))

\* TypeSig::parse at cursor pos
TypeSig_parse(data, pos) ==
    Bind(read_u8(data, pos),
         LAMBDA elem :
           IF ~elem.ok THEN SigErr(elem)
           ELSE CASE elem.val \in PrimitiveElems ->
                       SigOk(TypeVal("Primitive", elem.val, FALSE, <<>>),
                             elem.pos)
                  [] elem.val = 18 -> TypeSig_token("Class", data, elem.pos)
                  [] elem.val = 17 ->
                       TypeSig_token("ValueType", data, elem.pos)
                  [] elem.val = 29 -> TypeSig_boxed("SzArray", data, elem.pos)
                  [] elem.val = 20 -> TypeSig_array(data, elem.pos)
                  [] elem.val = 15 -> TypeSig_boxed("Ptr", data, elem.pos)
                  [] elem.val = 16 -> TypeSig_boxed("ByRef", data, elem.pos)
                  [] elem.val = 21 -> TypeSig_generic(data, elem.pos)
                  [] elem.val = 19 -> TypeSig_token("Var", data, elem.pos)
                  [] elem.val = 30 -> TypeSig_token("MVar", data, elem.pos)
                  [] elem.val = 27 -> TypeSig_fnptr(data, elem.pos)
                  [] elem.val = 31 -> TypeSig_modified(TRUE, data, elem.pos)
                  [] elem.val = 32 -> TypeSig_modified(FALSE, data, elem.pos)
                  [] elem.val = 69 -> TypeSig_boxed("Pinned", data, elem.pos)
                  [] OTHER ->
                       [ ok |-> FALSE, val |-> <<>>, pos |-> elem.pos,
                         err |-> InvalidBlob(position(data, elem.pos)) ])

\* the parameter loop of MethodSig::parse from parameter i on.  acc holds
\* params and sentinel (<<>> is None, << i >> is Some(i)) and, in consumed,
\* the parameters before which the loop read a sentinel byte
RECURSIVE ParseParams(_, _, _, _, _)
ParseParams(data, pos, i, param_count, acc) ==
    IF i >= param_count
    THEN [ ok |-> TRUE, val |-> acc, pos |-> pos, err |-> NoErr ]
    ELSE LET hit == /\ remaining(data, pos) > 0
                    /\ peek_u8(data, pos).val = SENTINEL
             at == IF hit THEN read_u8(data, pos).pos ELSE pos
             acc1 == IF hit
                     THEN [ acc EXCEPT !.sentinel = << i >>,
                                       !.consumed = Append(@, i) ]
                     ELSE acc
         IN  Bind(TypeSig_parse(data, at),
                  LAMBDA t :
                    IF ~t.ok
                    THEN [ ok |-> FALSE, val |-> acc1, pos |-> t.pos,
                           err |-> t.err ]
                    ELSE ParseParams(data, t.pos, i + 1, param_count,
                                     [ acc1 EXCEPT
                                         !.params = Append(@, t.val) ]))

NoParams == [ params |-> <<>>, sentinel |-> <<>>, consumed |-> <<>> ]
NoMethodSig ==
    [ calling_convention |-> 0, generic_param_count |-> 0,
      return_type |-> <<>>, params |-> <<>>, sentinel |-> <<>> ]

\* MethodSig::parse at cursor pos; `consumed` lists the sentinel bytes this
\* call's own parameter loop read
MethodSig_parse(data, pos) ==
    Bind(read_u8(data, pos),
         LAMBDA cc :
    IF ~cc.ok
    THEN [ ok |-> FALSE, val |-> NoMethodSig, pos |-> cc.pos,
           err |-> cc.err, consumed |-> <<>> ] ELSE
    Bind(IF (cc.val \div GENERIC) % 2 = 1
         THEN read_compressed_uint(data, cc.pos)
         ELSE [ ok |-> TRUE, val |-> 0, pos |-> cc.pos, err |-> NoErr ],
         LAMBDA generic_param_count :
    IF ~generic_param_count.ok
    THEN [ ok |-> FALSE, val |-> NoMethodSig,
           pos |-> generic_param_count.pos, err |-> generic_param_count.err,
           consumed |-> <<>> ] ELSE
    Bind(read_compressed_uint(data, generic_param_count.pos),
         LAMBDA param_count :
    IF ~param_count.ok
    THEN [ ok |-> FALSE, val |-> NoMethodSig, pos |-> param_count.pos,
           err |-> param_count.err, consumed |-> <<>> ] ELSE
    Bind(TypeSig_parse(data, param_count.pos),
         LAMBDA return_type :
    IF ~return_type.ok
    THEN [ ok |-> FALSE, val |-> NoMethodSig, pos |-> return_type.pos,
           err |-> return_type.err, consumed |-> <<>> ] ELSE
    Bind(ParseParams(data, return_type.pos, 0, param_count.val, NoParams),
         LAMBDA ps :
    [ ok |-> ps.ok,
      val |-> IF ps.ok
              THEN [ calling_convention |-> cc.val,
                     generic_param_count |-> generic_param_count.val,
                     return_type |-> return_type.val,
                     params |-> ps.val.params,
                     sentinel |-> ps.val.sentinel ]
              ELSE NoMethodSig,
      pos |-> ps.pos, err |-> ps.err,
      consumed |-> ps.val.consumed ])))))

\* MethodSig::parse_blob
MethodSig_parse_blob(data) == MethodSig_parse(data, 0)

\* ------------------------------------------------------------------------
\* SHA-1 and the public key token (crypto.rs).  A u32 is held as its two
\* 16-bit halves, U32(hi, lo)
\* ------------------------------------------------------------------------
\* F applied to the values of x and y, each evaluated once
Bind2(x, y, F(_, _)) ==
    CHOOSE r \in { F(a, b) : a \in { x }, b \in { y } } : TRUE

\* a & b on the low n bits of two halves
RECURSIVE And16(_, _, _)
And16(a, b, n) ==
    IF n = 0 THEN 0
    ELSE ((a % 2) * (b % 2)) + (2 * And16(a \div 2, b \div 2, n - 1))

\* x & y, x | y, x ^ y, !x on u32
BitAnd(x, y) ==
    Bind2(x, y, LAMBDA a, b :
                  U32(And16(a.hi, b.hi, 16), And16(a.lo, b.lo, 16)))
BitOr(x, y) ==
    Bind2(x, y, LAMBDA a, b :
                  Bind(BitAnd(a, b),
                       LAMBDA m : U32((a.hi + b.hi) - m.hi,
                                      (a.lo + b.lo) - m.lo)))
BitXor(x, y) ==
    Bind2(x, y, LAMBDA a, b :
                  Bind(BitAnd(a, b),
                       LAMBDA m : U32((a.hi + b.hi) - (2 * m.hi),
                                      (a.lo + b.lo) - (2 * m.lo))))
BitNot(x) == Bind(x, LAMBDA a : U32(65535 - a.hi, 65535 - a.lo))

\* u32::wrapping_add
wrapping_add(x, y) ==
    Bind2(x, y, LAMBDA a, b :
                  U32((a.hi + b.hi + ((a.lo + b.lo) \div 65536)) % 65536,
                      (a.lo + b.lo) % 65536))

\* a rotation to the left by n < 16 bits
Rotl16(a, n) ==
    U32(((a.hi * Pow2(n)) % 65536) + (a.lo \div Pow2(16 - n)),
        ((a.lo * Pow2(n)) % 65536) + (a.hi \div Pow2(16 - n)))

\* u32::rotate_left(n), n < 32
rotate_left(x, n) ==
    Bind(x, LAMBDA a : IF n < 16 THEN Rotl16(a, n)
                       ELSE Rotl16(U32(a.lo, a.hi), n - 16))

\* u32::from_be_bytes, u32::to_be_bytes
from_be_bytes(b0, b1, b2, b3) == U32((b0 * 256) + b1, (b2 * 256) + b3)
to_be_bytes(x) ==
    << x.hi \div 256, x.hi % 256, x.lo \div 256, x.lo % 256 >>

\* the initial hash values h0 .. h4 (FIPS 180-1)
Sha1Init ==
    << U32(26437, 8961), U32(61389, 43913), U32(39098, 56574),
       U32(4146, 21622), U32(50130, 57840) >>

\* the round constant k of round i
Sha1K(i) ==
    CASE i <= 19 -> U32(23170, 31129)
      [] i <= 39 -> U32(28377, 60321)
      [] i <= 59 -> U32(36635, 48348)
      [] OTHER -> U32(51810, 49622)

\* the round function f of round i
Sha1F(i, b, c, d) ==
    CASE i <= 19 -> BitOr(BitAnd(b, c), BitAnd(BitNot(b), d))
      [] i <= 39 -> BitXor(BitXor(b, c), d)
      [] i <= 59 -> BitOr(BitOr(BitAnd(b, c), BitAnd(b, d)), BitAnd(c, d))
      [] OTHER -> BitXor(BitXor(b, c), d)

\* `while (padded.len() % 64) != 56 { padded.push(0) }`: the loop pushes
\* the least number of zeros that brings the length to 56 modulo 64
PadZeros(padded) ==
    Bind(padded,
         LAMBDA p :
           p \o [ i \in 1 .. ((56 + 64) - (Len(p) % 64)) % 64 |-> 0 ])

\* the message, 0x80, the zeros and the bit length as a big-endian u64
Sha1Padded(data) ==
    Bind(PadZeros(Append(data, 128)),
         LAMBDA padded :
           padded \o << 0, 0, 0, 0 >> \o to_be_bytes(U32(0, Len(data) * 8)))

\* the sixteen big-endian words of a chunk
ChunkWords(chunk) ==
    Bind(chunk,
         LAMBDA c :
           [ i \in 1 .. (Len(c) \div 4) |->
               from_be_bytes(c[(4 * i) - 3], c[(4 * i) - 2], c[(4 * i) - 1],
                             c[4 * i]) ])

\* the words extended up to n of them by `for i in 16..80`: w holds the
\* words 0 .. Len(w) - 1, and the loop's turns are split in two halves
RECURSIVE ExtendWords(_, _)
ExtendWords(w, n) ==
    Bind2(w, n,
          LAMBDA w1, n1 :
            IF Len(w1) >= n1 THEN w1
            ELSE IF n1 - Len(w1) = 1
            THEN Append(w1, rotate_left(
                              BitXor(BitXor(BitXor(w1[Len(w1) - 2],
                                                   w1[Len(w1) - 7]),
                                            w1[Len(w1) - 13]),
                                     w1[Len(w1) - 15]), 1))
            ELSE Bind(ExtendWords(w1, Len(w1) + ((n1 - Len(w1)) \div 2)),
                      LAMBDA w2 : ExtendWords(w2, n1)))

\* one turn of the main loop on the working variables
Sha1Round(i, st, w) ==
    Bind(st,
         LAMBDA s :
           [ a |-> wrapping_add(
                     wrapping_add(
                       wrapping_add(
                         wrapping_add(rotate_left(s.a, 5),
                                      Sha1F(i, s.b, s.c, s.d)),
                         s.e),
                       Sha1K(i)),
                     w[i + 1]),
             b |-> s.a, c |-> rotate_left(s.b, 30), d |-> s.c, e |-> s.d ])

\* the turns lo .. hi - 1 of `for i in 0..80`, split in two halves
RECURSIVE Sha1Rounds(_, _, _, _)
Sha1Rounds(lo, hi, st, w) ==
    Bind2(lo, hi,
          LAMBDA l, h :
            IF h <= l THEN st
            ELSE IF h - l = 1 THEN Sha1Round(l, st, w)
            ELSE Bind(Sha1Rounds(l, l + ((h - l) \div 2), st, w),
                      LAMBDA s : Sha1Rounds(l + ((h - l) \div 2), h, s, w)))

\* the body of `for chunk in padded.chunks(64)`
Sha1Chunk(chunk, h) ==
    Bind2(ExtendWords(ChunkWords(chunk), 80), h,
          LAMBDA w, h_ :
            Bind(Sha1Rounds(0, 80, [ a |-> h_[1], b |-> h_[2], c |-> h_[3],
                                     d |-> h_[4], e |-> h_[5] ], w),
                 LAMBDA s :
                   << wrapping_add(h_[1], s.a), wrapping_add(h_[2], s.b),
                      wrapping_add(h_[3], s.c), wrapping_add(h_[4], s.d),
                      wrapping_add(h_[5], s.e) >>))

RECURSIVE Sha1Chunks(_, _)
Sha1Chunks(padded, h) ==
    IF padded = <<>> THEN h
    ELSE Bind(padded,
              LAMBDA p :
                Bind(Sha1Chunk(SubSeq(p, 1, 64), h),
                     LAMBDA h2 : Sha1Chunks(SubSeq(p, 65, Len(p)), h2)))

sha1(data) ==
    Bind(Sha1Chunks(Sha1Padded(data), Sha1Init),
         LAMBDA h :
           to_be_bytes(h[1]) \o to_be_bytes(h[2]) \o to_be_bytes(h[3])
             \o to_be_bytes(h[4]) \o to_be_bytes(h[5]))

\* a token made of the last 8 bytes of the hash in their own order
public_key_token_in_order(public_key) ==
    Bind(sha1(public_key), LAMBDA hash : SubSeq(hash, 13, 20))

\* token[i] = hash[19 - i] for i in 0..8 (indices from 1 here)
public_key_token(public_key) ==
    Bind(sha1(public_key),
         LAMBDA hash : [ i \in 1 .. 8 |-> hash[20 - (i - 1)] ])

\* ========================================================================
\* State
\* ========================================================================
VARIABLES
    ctx,      \* SpecRow: the layout context under test
    rowst,    \* SpecRow: the last row operation and its result
    hp,       \* SpecHeap: the heap under test [kind, origin, init, heap]
    hlog,     \* SpecHeap: the adds made so far, << [x, offset], ... >>
    hre,      \* SpecHeap: the heap rebuilt by parse(write()) [done, heap]
    inp,      \* Spec: the description of the input blob
    data,     \* Spec: the bytes Metadata::parse is reading
    pc,       \* Spec: [phase, round, err], where parse / write stands
    md,       \* Spec: the Metadata value being built, then held
    rd,       \* Spec: the reader over the tables stream and what it read
    md1,      \* Spec: the Metadata value that was written (round 1)
    out,      \* Spec: what Metadata::write produced
    madd,     \* Spec: the add made to a heap of md [n, kind, x, offset]
    cin,      \* SpecCodec: the call under test and its arguments
    cout      \* SpecCodec: [step, bytes, val, res], what the calls returned

rowVars == << ctx, rowst >>
heapVars == << hp, hlog, hre >>
mdVars == << inp, data, pc, md, rd, md1, out, madd >>
codecVars == << cin, cout >>
vars == << rowVars, heapVars, mdVars, codecVars >>

\* the variables each specification leaves alone
notRowVars == << heapVars, mdVars, codecVars >>
notHeapVars == << rowVars, mdVars, codecVars >>
notMdVars == << rowVars, heapVars, codecVars >>
notCodecVars == << rowVars, heapVars, mdVars >>

\* ------------------------------------------------------------------------
\* Idle values: what each specification holds the other layers' state at
\* ------------------------------------------------------------------------
ZeroCounts == [ i \in RowCountSlots |-> 0 ]

IdleRow == [ op |-> "none", table |-> NoTable, row |-> EmptyRow,
             bytes |-> <<>>, ok |-> FALSE, parsed |-> EmptyRow,
             consumed |-> 0, size |-> 0 ]

IdleRowState ==
    /\ ctx = [ heap_sizes |-> 0, row_counts |-> ZeroCounts ]
    /\ rowst = IdleRow

IdleHeapState ==
    /\ hp = [ kind |-> "GUID", origin |-> "new", init |-> <<>>,
              heap |-> GuidHeap_new ]
    /\ hlog = <<>>
    /\ hre = [ done |-> FALSE, heap |-> GuidHeap_new ]

NoInput == [ version |-> <<>>, names |-> <<>>, counts |-> NoTables, hs |-> 0,
             cut |-> 0 ]

NoReader == [ data |-> <<>>, pos |-> 0, next |-> 1, spans |-> <<>>,
              c |-> [ heap_sizes |-> 0, row_counts |-> ZeroCounts ] ]

NoOutput == [ bytes |-> <<>>, root |-> NoRoot, placed |-> <<>>,
              header |-> NoHeader ]

NoAdd == [ n |-> 0, kind |-> "GUID", x |-> <<>>, offset |-> 0,
           table |-> NoTable, errors |-> <<>> ]

NoCall == [ op |-> "none", v |-> 0, kind |-> "none", table |-> NoTable,
            row |-> U32(0, 0), val |-> U32(0, 0), data |-> <<>>, pos |-> 0,
            n |-> 0, header |-> NoHeader ]

NoRes == [ ok |-> FALSE, val |-> 0, pos |-> 0, err |-> NoErr ]

NoResult == [ step |-> 0, bytes |-> <<>>, val |-> U32(0, 0), res |-> NoRes,
              last |-> [ op |-> "none", arg |-> 0 ], header |-> NoHeader,
              log |-> <<>> ]

IdleCodecState ==
    /\ cin = NoCall
    /\ cout = NoResult

IdleMdState ==
    /\ inp = NoInput
    /\ data = <<>>
    /\ pc = [ phase |-> "idle", round |-> 1, err |-> NoErr ]
    /\ md = NoMetadata
    /\ rd = NoReader
    /\ md1 = NoMetadata
    /\ out = NoOutput
    /\ madd = NoAdd

\* ------------------------------------------------------------------------
\* SpecRow: row_size, R::write and R::parse applied under bounded contexts
\* ------------------------------------------------------------------------
\* Number of sample rows tried per table
MaxPattern == 2

\* Row counts around the index-width thresholds
\* (2^11, 2^13, 2^14, 2^15 for coded indices, 0xFFFF / 0x10000 for simple)
RowCountLevels == { 2048, 8192, 16384, 32768, 65535, 65536 }

InitRowCtx ==
    \/ /\ ctx \in [ heap_sizes : 0 .. 7, row_counts : { ZeroCounts } ]
    \/ /\ \E hs \in { 0, 7 }, big \in TableIds, n \in RowCountLevels :
            ctx = [ heap_sizes |-> hs,
                    row_counts |-> [ ZeroCounts EXCEPT ![big] = n ] ]

InitRow ==
    /\ InitRowCtx
    /\ rowst = IdleRow
    /\ IdleHeapState
    /\ IdleMdState
    /\ IdleCodecState

\* TableContext::row_size(table)
RowSize(t) ==
    /\ rowst.op = "none"
    /\ rowst' = [ IdleRow EXCEPT !.op = "size", !.table = t,
                                 !.size = row_size(ctx, t) ]
    /\ UNCHANGED << ctx, notRowVars >>

\* R::write of a sample row into a fresh writer
RowWrite(t, p) ==
    /\ rowst.op = "none"
    /\ rowst' = [ IdleRow EXCEPT !.op = "write", !.table = t,
                                 !.row = SampleRow(t, p),
                                 !.bytes = WriteRow(t, ctx, SampleRow(t, p)) ]
    /\ UNCHANGED << ctx, notRowVars >>

\* R::parse of the bytes just written, from a reader at position 0
RowParse ==
    /\ rowst.op = "write"
    /\ LET r == ParseRow(rowst.table, ctx, rowst.bytes, 0)
       IN  rowst' = [ rowst EXCEPT !.op = "parse", !.ok = r.ok,
                                   !.parsed = r.row, !.consumed = r.pos,
                                   !.size = row_size(ctx, rowst.table) ]
    /\ UNCHANGED << ctx, notRowVars >>

\* the index fields a row can hold: heap, simple and coded indices
IndexFields ==
    { FStr("index"), FGuid("index"), FBlob("index") }
        \cup { FTbl("index", t) : t \in TableIds }
        \cup { FCod("index", c) : c \in CodedIndexKinds }

\* string_index_size, guid_index_size, blob_index_size, table_index_size
\* or coded_index_size, by the kind of the field
IndexSizeOf(c, f) ==
    CASE f.k = "str" -> string_index_size(c)
      [] f.k = "guid" -> guid_index_size(c)
      [] f.k = "blob" -> blob_index_size(c)
      [] f.k = "tbl" -> table_index_size(c, f.t)
      [] OTHER -> coded_index_size(c, f.c)

\* TableContext::*_index_size for one index field
IndexSize(f) ==
    /\ rowst.op = "none"
    /\ rowst' = [ IdleRow EXCEPT !.op = "index", !.row = f,
                                 !.size = IndexSizeOf(ctx, f) ]
    /\ UNCHANGED << ctx, notRowVars >>

NextRow ==
    \/ \E f \in IndexFields : IndexSize(f)
    \/ \E t \in TableIds : RowSize(t)
    \/ \E t \in SourceRowTables, p \in 1 .. MaxPattern : RowWrite(t, p)
    \/ RowParse

SpecRow == InitRow /\ [][NextRow]_vars

\* ------------------------------------------------------------------------
\* Claims about the row layer (checked under SpecRow)
\* ------------------------------------------------------------------------
\* every index value of the row fits the width ctx assigns to its field,
\* and every coded index names a table of its scheme
RowFits(c, table, row) ==
    \A i \in 1 .. Len(RowWriteFields(table)) :
        LET f == RowWriteFields(table)[i]
        IN  CASE f.k \in { "u8", "u16", "u32" } -> TRUE
              [] f.k = "coded" ->
                    /\ row[f.n].table # NoTable
                    /\ \E j \in 1 .. Len(tables(f.c)) :
                            tables(f.c)[j] = row[f.n].table
                    /\ (FieldWide(c, f) \/ encode(row[f.n], f.c) < 65536)
              [] OTHER -> FieldWide(c, f) \/ row[f.n] < 65536

\* C3: for every table and every layout context, row_size(table) equals the
\* number of bytes the table's row parser consumes for one row.
C3_RowSizeMatchesParser ==
    (rowst.op = "parse" /\ rowst.ok) =>
        row_size(ctx, rowst.table) = rowst.consumed

\* C17: under any layout context a heap index is 4 bytes wide iff its
\* heap-size bit (0x01 strings, 0x02 GUID, 0x04 blob) is set, a simple table
\* index iff the target table has more than 0xFFFF rows, and a coded index
\* iff some target table of its scheme has at least 2^(16 - tag_bits) rows;
\* in every other case the width is 2.
C17_IndexWidths ==
    (rowst.op = "index") =>
        LET f == rowst.row
            wide ==
              CASE f.k = "str" -> (ctx.heap_sizes % 2) = 1
                [] f.k = "guid" -> ((ctx.heap_sizes \div 2) % 2) = 1
                [] f.k = "blob" -> ((ctx.heap_sizes \div 4) % 2) = 1
                [] f.k = "tbl" -> ctx.row_counts[f.t] > 65535
                [] OTHER -> \E t \in Targets(f.c) :
                                ctx.row_counts[t] >= Pow2(16 - tag_bits(f.c))
        IN  rowst.size = IF wide THEN 4 ELSE 2

\* C17 witness: with 2048 TypeDef rows the HasCustomAttribute index is 4
\* bytes wide
C17_Witness ==
    /\ rowst.op = "index"
    /\ rowst.row.k = "coded" /\ rowst.row.c = "HasCustomAttribute"
    /\ ctx.row_counts[TypeDef] = 2048
    /\ rowst.size = 4

\* C4: under every context, R::write emits exactly as many bytes as R::parse
\* consumes, and parsing the emitted bytes returns the row that was written,
\* provided the index values fit their widths and coded indices name a table
\* of their scheme.
C4_RowWriteParseRoundTrip ==
    (rowst.op = "parse" /\ RowFits(ctx, rowst.table, rowst.row)) =>
        /\ rowst.ok
        /\ rowst.consumed = Len(rowst.bytes)
        /\ rowst.parsed = rowst.row

\* C4 witness: a TypeDef row with a 4-byte TypeDefOrRef coded index and
\* 4-byte heap indices was written and parsed back
C4_Witness ==
    /\ rowst.op = "parse"
    /\ rowst.table = TypeDef
    /\ RowFits(ctx, TypeDef, rowst.row)
    /\ wide_coded_index(ctx, "TypeDefOrRef")
    /\ wide_string_indices(ctx)
    /\ rowst.row["extends"].row > 0

\* ------------------------------------------------------------------------
\* SpecHeap: one heap, built by new(), Default or parse(bytes), then a
\* bounded number of adds, then rebuilt by parse from the bytes of write()
\* ------------------------------------------------------------------------
\* Number of adds made to the heap under test
MaxAdds == 2

\* a blob long enough for a two-byte compressed length
LongBlob == [ i \in 1 .. 130 |-> i ]

\* strings: empty, ASCII, an embedded NUL, a two-byte and a four-byte UTF-8
\* character (the latter a UTF-16 surrogate pair), and a #US "special"
HeapStringVals ==
    { <<>>, << 65 >>, << 65, 66 >>, << 65, 0, 66 >>, << 233 >>,
      << 128512 >>, << 39 >> }

HeapBlobVals == { <<>>, << 0 >>, << 1, 2, 3 >>, LongBlob }

HeapGuidVals == { NullGuid, [ i \in 1 .. 16 |-> i ], [ i \in 1 .. 16 |-> 255 ] }

HeapVals(kind) ==
    CASE kind \in { "Strings", "US" } -> HeapStringVals
      [] kind = "Blob" -> HeapBlobVals
      [] OTHER -> HeapGuidVals

\* stream contents handed to parse: well-formed, truncated and malformed
HeapParseData(kind) ==
    CASE kind = "Strings" ->
            { << 0 >>, << 0, 65, 0 >>, << 0, 65 >>, << 255, 0 >>,
              << 65, 66, 0 >> }
      [] kind = "Blob" ->
            { << 0 >>, << 0, 1, 7 >>, << 0, 5, 1 >>, << 224 >>,
              << 0, 3, 1, 2, 3 >> }
      [] kind = "US" ->
            { << 0 >>, << 0, 3, 65, 0, 0 >>, << 0, 2, 65 >>,
              << 0, 3, 0, 216, 0 >> }
      [] OTHER ->
            { <<>>, [ i \in 1 .. 16 |-> i ], [ i \in 1 .. 17 |-> i ],
              [ i \in 1 .. 32 |-> 7 ] }

InitHeap ==
    /\ IdleRowState
    /\ IdleMdState
    /\ IdleCodecState
    /\ \E kind \in HeapKinds :
        \/ hp = [ kind |-> kind, origin |-> "new", init |-> <<>>,
                  heap |-> HeapNew(kind) ]
        \/ hp = [ kind |-> kind, origin |-> "default", init |-> <<>>,
                  heap |-> HeapDefault(kind) ]
        \/ \E d \in HeapParseData(kind) :
              hp = [ kind |-> kind, origin |-> "parse", init |-> d,
                     heap |-> HeapParse(kind, d) ]
    /\ hlog = <<>>
    /\ hre = [ done |-> FALSE, heap |-> GuidHeap_new ]

\* heap.add(x)
HeapAddStep(x) ==
    /\ ~hre.done
    /\ Len(hlog) < MaxAdds
    /\ LET r == HeapAdd(hp.kind, hp.heap, x)
       IN  /\ hp' = [ hp EXCEPT !.heap = r.heap ]
           /\ hlog' = Append(hlog, [ x |-> x, offset |-> r.offset,
                                     data |-> r.heap.data ])
    /\ UNCHANGED << hre, notHeapVars >>

\* Heap::parse(&heap.write())
HeapReparse ==
    /\ ~hre.done
    /\ hre' = [ done |-> TRUE,
                heap |-> HeapParse(hp.kind, HeapWrite(hp.kind, hp.heap)) ]
    /\ UNCHANGED << hp, hlog, notHeapVars >>

NextHeap ==
    \/ \E x \in HeapVals(hp.kind) : HeapAddStep(x)
    \/ HeapReparse

SpecHeap == InitHeap /\ [][NextHeap]_vars

\* ------------------------------------------------------------------------
\* Claims about the heaps (checked under SpecHeap)
\* ------------------------------------------------------------------------
\* the last two adds were add(x); add(x) on a #Strings or #Blob heap
AddedTwice ==
    /\ hp.kind \in { "Strings", "Blob" }
    /\ ~hre.done
    /\ Len(hlog) >= 2
    /\ hlog[Len(hlog)].x = hlog[Len(hlog) - 1].x

\* the string holds no NUL character
NoNul(x) == \A i \in 1 .. Len(x) : x[i] # 0

\* C8 as stated: on any #Strings or #Blob heap and for any value x, add(x);
\* add(x) return the same offset and get at that offset returns x.
C8_AddTwiceSameOffsetGetsX ==
    AddedTwice =>
        /\ hlog[Len(hlog)].offset = hlog[Len(hlog) - 1].offset
        /\ HeapGet(hp.kind, hp.heap, hlog[Len(hlog)].offset)
               = GetOk(hlog[Len(hlog)].x)

\* C8 amended: on any #Strings or #Blob heap, add(x); add(x) return the same
\* offset for any value x, and get at that offset returns x when x is a blob
\* or a string without a NUL character.
C8_AddTwiceSameOffsetGetsNulFreeX ==
    AddedTwice =>
        /\ hlog[Len(hlog)].offset = hlog[Len(hlog) - 1].offset
        /\ (hp.kind = "Blob" \/ NoNul(hlog[Len(hlog)].x)) =>
               HeapGet(hp.kind, hp.heap, hlog[Len(hlog)].offset)
                   = GetOk(hlog[Len(hlog)].x)

\* C8 witness: a non-empty string was added twice to a #Strings heap that
\* was parsed from bytes
C8_Witness ==
    /\ AddedTwice
    /\ hp.kind = "Strings" /\ hp.origin = "parse" /\ hp.init # << 0 >>
    /\ hlog[Len(hlog)].x = << 65, 66 >>

\* C9 as stated: for each of the four heaps, starting from new(), after adds
\* x_1..x_n with returned offsets o_1..o_n, the heap rebuilt by parse from
\* the bytes of write() satisfies get(o_i) = x_i for every i.
C9_HeapWriteParseRoundTrip ==
    (hre.done /\ hp.origin = "new") =>
        \A i \in 1 .. Len(hlog) :
            HeapGet(hp.kind, hre.heap, hlog[i].offset) = GetOk(hlog[i].x)

\* C9 amended: the same, for #US, #GUID and #Blob values and for #Strings
\* values that hold no NUL character.
C9_HeapWriteParseRoundTripNulFree ==
    (hre.done /\ hp.origin = "new") =>
        \A i \in 1 .. Len(hlog) :
            (hp.kind # "Strings" \/ NoNul(hlog[i].x)) =>
                HeapGet(hp.kind, hre.heap, hlog[i].offset) = GetOk(hlog[i].x)

\* C9 witness: a #US heap from new() took two different strings, one of them
\* a surrogate pair, and was rebuilt from its bytes
C9_Witness ==
    /\ hre.done /\ hp.origin = "new" /\ hp.kind = "US"
    /\ Len(hlog) = 2
    /\ hlog[1].x = << 128512 >> /\ hlog[2].x = << 65, 0, 66 >>

\* x is stored in the bytes d of a heap: get of some offset returns it
StoredIn(kind, d, x) ==
    \E o \in 0 .. (Len(d) - 1) : HeapGet(kind, HeapParse(kind, d), o) = GetOk(x)

\* the first add to a parsed #Strings or #Blob heap took a value its bytes
\* already hold
AddedStored ==
    /\ hp.kind \in { "Strings", "Blob" }
    /\ hp.origin = "parse"
    /\ ~hre.done
    /\ Len(hlog) = 1
    /\ StoredIn(hp.kind, hp.init, hlog[1].x)

\* C11: for a #Strings or #Blob heap built by parse, add(x) of a value x
\* already stored in the parsed bytes returns the offset of an existing entry
\* equal to x and does not grow the heap.
C11_AddDedupsAgainstParsedBytes ==
    AddedStored =>
        /\ hlog[1].offset < Len(hp.init)
        /\ HeapGet(hp.kind, HeapParse(hp.kind, hp.init), hlog[1].offset)
               = GetOk(hlog[1].x)
        /\ hp.heap.data = hp.init

\* a #GUID heap took at least one add
GuidAdded == hp.kind = "GUID" /\ ~hre.done /\ Len(hlog) >= 1

C20_BlobGetFailsWithInvalidBlob ==
    (hp.kind = "Blob") =>
        \A o \in 0 .. (Len(hp.heap.data) + 1) :
            LET len == read_compressed_uint(SliceFrom(hp.heap.data, o), 0)
                start == o + len.pos
            IN  BlobHeap_get(hp.heap, o)
                  = IF \/ o >= Len(hp.heap.data)
                       \/ ~len.ok
                       \/ start + len.val > Len(hp.heap.data)
                    THEN GetErr("InvalidBlob", o)
                    ELSE GetOk(SubSeq(hp.heap.data, start + 1,
                                      start + len.val))

\* the bytes of the heap before its first add
HeapInitialData ==
    CASE hp.origin = "parse" -> hp.init
      [] hp.origin = "new" -> HeapNew(hp.kind).data
      [] OTHER -> HeapDefault(hp.kind).data

\* the bytes the heap held after each add, and before the first, are still
\* the leading bytes of the heap
EarlierBytesKept ==
    /\ SubSeq(hp.heap.data, 1, Len(HeapInitialData)) = HeapInitialData
    /\ \A i \in 1 .. Len(hlog) :
          SubSeq(hp.heap.data, 1, Len(hlog[i].data)) = hlog[i].data

MaxMdAdds == 1

Init ==
    /\ IdleRowState
    /\ IdleHeapState
    /\ IdleCodecState
    /\ \E version \in InputVersions, names \in InputStreamOrders,
          counts \in InputTableSets, hs \in InputHeapSizes,
          cut \in InputCuts :
          /\ cut > 0 => (version = << 118, 52 >> /\ hs = 0)
          /\ inp = [ version |-> version, names |-> names,
                     counts |-> counts, hs |-> hs, cut |-> cut ]
          /\ \E blob \in { InputBlob(version, names, counts, hs) } :
                data = SubSeq(blob, 1, Len(blob) - cut)
    /\ pc = [ phase |-> "root", round |-> 1, err |-> NoErr ]
    /\ md = NoMetadata
    /\ rd = NoReader
    /\ md1 = NoMetadata
    /\ out = NoOutput
    /\ madd = NoAdd

\* MetadataRoot::parse(data)?
MdParseRoot ==
    /\ pc.phase = "root"
    /\ LET r == MetadataRoot_parse(data)
       IN  IF r.ok
           THEN /\ md' = [ md EXCEPT !.root = r.val ]
                /\ pc' = [ pc EXCEPT !.phase = "heaps" ]
           ELSE /\ pc' = [ pc EXCEPT !.phase = "error", !.err = r.err ]
                /\ UNCHANGED md
    /\ UNCHANGED << inp, data, rd, md1, out, madd, notMdVars >>

\* the four parse_heap calls
MdParseHeaps ==
    /\ pc.phase = "heaps"
    /\ md' = [ md EXCEPT
                 !.strings = parse_heap(md.root, data, "Strings"),
                 !.user_strings = parse_heap(md.root, data, "US"),
                 !.guids = parse_heap(md.root, data, "GUID"),
                 !.blobs = parse_heap(md.root, data, "Blob") ]
    /\ pc' = [ pc EXCEPT !.phase = "header" ]
    /\ UNCHANGED << inp, data, rd, md1, out, madd, notMdVars >>

\* tables_stream lookup, the slice of the stream, TablesHeader::parse and
\* tables_header.context().  The slice panics when it leaves the buffer.
MdParseTablesHeader ==
    /\ pc.phase = "header"
    /\ LET i == tables_stream(md.root)
       IN  IF i = 0
           THEN /\ pc' = [ pc EXCEPT
                             !.phase = "error",
                             !.err = [ kind |-> "StreamNotFound",
                                       offset |-> 0, needed |-> 0 ] ]
                /\ UNCHANGED << md, rd >>
           ELSE LET s == md.root.streams[i]
                IN  IF s.offset + s.size > Len(data)
                    THEN /\ pc' = [ pc EXCEPT !.phase = "panic" ]
                         /\ UNCHANGED << md, rd >>
                    ELSE LET tables_data ==
                                 SubSeq(data, s.offset + 1, s.offset + s.size)
                             h == TablesHeader_parse(tables_data, 0)
                         IN  IF h.ok
                             THEN /\ md' = [ md EXCEPT !.tables_header = h.val ]
                                  /\ rd' = [ data |-> tables_data,
                                             pos |-> h.pos, next |-> 1,
                                             spans |-> <<>>,
                                             c |-> context(h.val) ]
                                  /\ pc' = [ pc EXCEPT !.phase = "tables" ]
                             ELSE /\ pc' = [ pc EXCEPT !.phase = "error",
                                                       !.err = h.err ]
                                  /\ UNCHANGED << md, rd >>
    /\ UNCHANGED << inp, data, md1, out, madd, notMdVars >>

\* the next parse_table / skip_table call of Metadata::parse
MdParseTable ==
    /\ pc.phase = "tables"
    /\ rd.next <= Len(ParseOrder)
    /\ LET call == ParseOrder[rd.next]
           r == IF call.skip
                THEN skip_table(rd.data, rd.pos, rd.c, call.table)
                ELSE parse_table(rd.data, rd.pos, rd.c, call.table)
       IN  IF r.ok
           THEN /\ rd' = [ rd EXCEPT
                             !.pos = r.pos,
                             !.next = @ + 1,
                             !.spans = Append(@, [ table |-> call.table,
                                                   start |-> rd.pos,
                                                   end |-> r.pos ]) ]
                /\ md' = IF call.skip THEN md
                         ELSE [ md EXCEPT !.rows[call.table] = r.val ]
                /\ UNCHANGED pc
           ELSE /\ pc' = [ pc EXCEPT !.phase = "error", !.err = r.err ]
                /\ UNCHANGED << md, rd >>
    /\ UNCHANGED << inp, data, md1, out, madd, notMdVars >>

\* Ok(Self { .. }) at the end of Metadata::parse
MdParseFinish ==
    /\ pc.phase = "tables"
    /\ rd.next > Len(ParseOrder)
    /\ pc' = [ pc EXCEPT !.phase = IF pc.round = 1 THEN "parsed" ELSE "done" ]
    /\ UNCHANGED << inp, data, md, rd, md1, out, madd, notMdVars >>

MdHeap(m, kind) ==
    CASE kind = "Strings" -> m.strings
      [] kind = "US" -> m.user_strings
      [] kind = "GUID" -> m.guids
      [] OTHER -> m.blobs

\* metadata.strings.add(x), metadata.user_strings.add(x), ...
MdHeapAdd(kind, x) ==
    /\ pc.phase = "parsed"
    /\ madd.n < MaxMdAdds
    /\ LET r == HeapAdd(kind, MdHeap(md, kind), x)
       IN  /\ md' = CASE kind = "Strings" -> [ md EXCEPT !.strings = r.heap ]
                      [] kind = "US" -> [ md EXCEPT !.user_strings = r.heap ]
                      [] kind = "GUID" -> [ md EXCEPT !.guids = r.heap ]
                      [] OTHER -> [ md EXCEPT !.blobs = r.heap ]
           /\ madd' = [ n |-> madd.n + 1, kind |-> kind, x |-> x,
                        offset |-> r.offset, table |-> NoTable,
                        errors |-> <<>> ]
    /\ UNCHANGED << inp, data, pc, rd, md1, out, notMdVars >>

\* the values added to the heaps of a parsed Metadata
MdAddVals(kind) ==
    CASE kind \in { "Strings", "US" } -> { <<>>, << 66 >> }
      [] kind = "Blob" -> { <<>>, << 1, 2, 3 >> }
      [] OTHER -> { [ i \in 1 .. 16 |-> 255 ] }

\* the modeled tables whose row vectors take a push or a pop
RowEditTables == { Module, TypeRef }

\* a row whose fields are all 0 (a coded index as decode gives it for 0)
NullRow(table) ==
    LET fs == RowParseFields(table)
    IN  [ n \in { fs[i].n : i \in 1 .. Len(fs) } |->
            LET i == CHOOSE j \in 1 .. Len(fs) : fs[j].n = n
            IN  IF fs[i].k = "coded" THEN decode(fs[i].c, 0) ELSE 0 ]

\* the rows pushed: a sample row, the null row, and the null row with 9 in
\* its last field (Module.enc_base_id, TypeRef.type_namespace)
EditRows(table) ==
    LET fs == RowParseFields(table)
    IN  { SampleRow(table, 1), NullRow(table),
          [ NullRow(table) EXCEPT ![fs[Len(fs)].n] = 9 ] }

\* metadata.modules.push(row), metadata.type_refs.push(row): the row
\* vectors are public fields
MdRowPush(t, row) ==
    /\ pc.phase = "parsed"
    /\ madd.n < MaxMdAdds
    /\ md' = [ md EXCEPT !.rows[t] = Append(@, row) ]
    /\ madd' = [ NoAdd EXCEPT !.n = madd.n + 1, !.kind = "push", !.table = t ]
    /\ UNCHANGED << inp, data, pc, rd, md1, out, notMdVars >>

\* metadata.modules.pop(), metadata.type_refs.pop() on a vector with rows
MdRowPop(t) ==
    /\ pc.phase = "parsed"
    /\ madd.n < MaxMdAdds
    /\ Len(md.rows[t]) > 0
    /\ md' = [ md EXCEPT !.rows[t] = SubSeq(@, 1, Len(@) - 1) ]
    /\ madd' = [ NoAdd EXCEPT !.n = madd.n + 1, !.kind = "pop", !.table = t ]
    /\ UNCHANGED << inp, data, pc, rd, md1, out, notMdVars >>

\* metadata.validate(): the value is not used afterwards
MdValidate ==
    /\ pc.phase = "parsed"
    /\ madd' = [ madd EXCEPT !.errors = validate(md) ]
    /\ pc' = [ pc EXCEPT !.phase = "validated" ]
    /\ UNCHANGED << inp, data, md, rd, md1, out, notMdVars >>

\* Metadata::write, and the start of Metadata::parse on its result
MdWrite ==
    /\ pc.phase = "parsed"
    /\ out' = write_to(md)
    /\ md1' = md
    /\ data' = out'.bytes
    /\ md' = NoMetadata
    /\ rd' = NoReader
    /\ pc' = [ phase |-> "root", round |-> 2, err |-> NoErr ]
    /\ UNCHANGED << inp, madd, notMdVars >>

Next ==
    \/ MdParseRoot
    \/ MdParseHeaps
    \/ MdParseTablesHeader
    \/ MdParseTable
    \/ MdParseFinish
    \/ \E kind \in HeapKinds : \E x \in MdAddVals(kind) : MdHeapAdd(kind, x)
    \/ \E t \in RowEditTables : \E row \in EditRows(t) : MdRowPush(t, row)
    \/ MdValidate
    \/ \E t \in RowEditTables : MdRowPop(t)
    \/ MdWrite

Spec == Init /\ [][Next]_vars

\* ------------------------------------------------------------------------
\* Claims about Metadata (checked under Spec)
\* ------------------------------------------------------------------------
\* the second parse has ended: with a Metadata value, an Err or a panic
ReparseEnded == pc.round = 2 /\ pc.phase \in { "done", "error", "panic" }

\* the blob that was parsed has rows only in modeled tables and only the
\* well-known streams, and the parsed value was written unchanged
ModeledOnlyInput ==
    /\ \A t \in UnmodeledTables : md1.tables_header.row_counts[t] = 0
    /\ \A i \in 1 .. Len(md1.root.streams) :
          md1.root.streams[i].name \in WellKnownStreams
    /\ madd.n = 0

\* C1: for a blob b that parse accepts, with rows only in modeled tables and
\* only well-known streams, parse(parse(b).write()) succeeds and yields the
\* same rows in every table, the same heap contents and the same version
\* string as parse(b).
C1_ParseWriteParseSame ==
    (ReparseEnded /\ ModeledOnlyInput) =>
        /\ pc.phase = "done"
        /\ md.rows = md1.rows
        /\ md.strings.data = md1.strings.data
        /\ md.user_strings.data = md1.user_strings.data
        /\ md.guids.data = md1.guids.data
        /\ md.blobs.data = md1.blobs.data
        /\ md.root.version = md1.root.version

\* Metadata::write has produced its output
Written == pc.round = 2

\* C2: in the output of write, every well-known stream's recorded offset is
\* the position where its content starts and its recorded size is the number
\* of content bytes emitted; streams appear in declaration order, start on
\* 4-byte boundaries and do not overlap.
C2_StreamHeadersMatchLayout ==
    Written =>
        /\ Len(out.placed) = Len(out.root.streams)
        /\ \A i \in 1 .. Len(out.root.streams) :
              /\ out.root.streams[i].name \in WellKnownStreams =>
                    /\ out.root.streams[i].offset = out.placed[i].start
                    /\ out.root.streams[i].size = out.placed[i].len
              /\ out.placed[i].start % 4 = 0
              /\ i > 1 => out.placed[i].start
                            >= out.placed[i - 1].start + out.placed[i - 1].len

\* C5: parse reads the tables in strictly ascending id order with one cursor
\* that only moves forward: every table is read from where the preceding
\* table's rows (or skip) ended, after all lower ids were consumed.
C5_TablesParsedInAscendingOrder ==
    /\ \A i \in 1 .. Len(rd.spans) :
          /\ rd.spans[i].table = i - 1
          /\ rd.spans[i].start <= rd.spans[i].end
          /\ i > 1 => /\ rd.spans[i - 1].table < rd.spans[i].table
                      /\ rd.spans[i].start = rd.spans[i - 1].end
          /\ i = 1 => rd.spans[i].start = TablesHeader_size(md.tables_header)
    /\ Len(rd.spans) > 0 => rd.pos = rd.spans[Len(rd.spans)].end

\* C5 witness: all 45 tables were consumed and rows of TypeRef, AssemblyRef
\* and GenericParamConstraint were read at increasing positions
C5_Witness ==
    /\ pc.phase = "parsed"
    /\ Len(rd.spans) = 45
    /\ Len(md.rows[TypeRef]) = 2 /\ Len(md.rows[AssemblyRef]) = 1
    /\ Len(md.rows[GenericParamConstraint]) = 1
    /\ rd.spans[TypeRef + 1].end <= rd.spans[AssemblyRef + 1].start
    /\ rd.spans[AssemblyRef + 1].end > rd.spans[AssemblyRef + 1].start

\* C6: an unmodeled table with N > 0 rows is skipped by N times its non-zero
\* row width, so the rows of every later table are read from the positions
\* they have in the stream.
C6_UnmodeledTablesSkippedByWidth ==
    (pc.round = 1) =>
        \A i \in 1 .. Len(rd.spans) :
            LET t == rd.spans[i].table
            IN  /\ (t \in UnmodeledTables /\ row_count(rd.c, t) > 0) =>
                      /\ row_size(rd.c, t) > 0
                      /\ rd.spans[i].end - rd.spans[i].start
                            = row_count(rd.c, t) * row_size(rd.c, t)
                /\ (t \in { AssemblyRef, NestedClass, GenericParam,
                            MethodSpec, GenericParamConstraint }
                    /\ row_count(rd.c, t) > 0) =>
                      rd.spans[i].start = InputTablePos(inp.counts, inp.hs)[t]

\* rows of table t that write_tables emits after the header
EmittedRows(m, t) ==
    IF \E i \in 1 .. Len(WriteOrder) : WriteOrder[i] = t
    THEN Len(m.rows[t]) ELSE 0

\* C7: in the emitted tables stream, for every table id the row count in the
\* emitted header equals the number of rows emitted for that table.
C7_HeaderCountsMatchRows ==
    Written =>
        \A t \in TableIds :
            (IF has_table(out.header, t) THEN row_count(out.header, t) ELSE 0)
                = EmittedRows(md1, t)

\* C10: every #Strings, #US and #Blob heap of a Metadata value has first
\* byte 0, get(0) returns the empty value, and add never returns offset 0
\* for a non-empty value.
C10_HeapsStartWithZero ==
    (pc.phase = "parsed") =>
        \A kind \in { "Strings", "US", "Blob" } :
            /\ Len(MdHeap(md, kind).data) > 0
            /\ MdHeap(md, kind).data[1] = 0
            /\ HeapGet(kind, MdHeap(md, kind), 0) = GetOk(<<>>)
            /\ (madd.n > 0 /\ madd.kind = kind /\ madd.x # <<>>) =>
                  madd.offset # 0

\* a row was pushed to, or popped from, a modeled table vector after parse
RowsEdited == madd.n > 0 /\ madd.kind \in { "push", "pop" }

\* C26: the tables-stream size that write records in the stream directory is
\* computed from the in-memory row vectors and the heap-size flags actually
\* emitted, not from the counts and flags tables_header holds from parse:
\* after row insertions or removals on modeled table vectors the recorded
\* size equals the number of bytes emitted for the tables header plus rows.
C26_TablesSizeFromRowVectors ==
    (Written /\ RowsEdited) =>
        \A i \in 1 .. Len(out.root.streams) :
            is_tables(out.root.streams[i]) =>
                out.root.streams[i].size
                    = Len(write_tables(md1, calculate_heap_sizes(md1)))

\* every non-zero heap index stored in a row resolves in its heap and every
\* simple-table index is at most the target's row count plus one
IndicesResolve(m) ==
    \A t \in ModeledTables :
        \A i \in 1 .. Len(m.rows[t]) :
            \A j \in 1 .. Len(RowParseFields(t)) :
                LET f == RowParseFields(t)[j]
                    v == m.rows[t][i][f.n]
                IN  /\ f.k = "str" =>
                          (v = 0 \/ StringsHeap_get(m.strings, v).ok)
                    /\ f.k = "guid" => (v = 0 \/ GuidHeap_get(m.guids, v).ok)
                    /\ f.k = "blob" => (v = 0 \/ BlobHeap_get(m.blobs, v).ok)
                    /\ f.k = "tbl" => v <= Len(m.rows[f.t]) + 1

\* C21: validate returns an empty list iff the Module table has at least
\* one row, every non-zero #Strings, #GUID and #Blob index stored in any row
\* of any table resolves in its heap, and every simple-table index stored
\* in any row lies in [0, rows + 1] of its target table.
C21_ValidateEmptyIffAllIndicesValid ==
    (pc.phase = "validated") =>
        ((madd.errors = <<>>)
            <=> (Len(md.rows[Module]) >= 1 /\ IndicesResolve(md)))

\* ------------------------------------------------------------------------
\* SpecCodec: the compressed-integer codec, the coded-index codec and the
\* reader's fixed-width reads, each applied to one drawn input
\* ------------------------------------------------------------------------
\* Longest buffer handed to a reader
MaxBuf == 9

\* values around the one-, two- and four-byte forms, up to 0x1FFFFFFF
CompressedVals ==
    { 0, 1, 127, 128, 129, 255, 256, 300, 8191, 16383, 16384, 16385, 65535,
      65536, 70000, 16777215, 16777216, 16909060, 305419896, 536870911 }

\* rows around the 16-bit boundary and at the top for a scheme with b tag
\* bits: 2^(32 - b) - 1
CodedRows(b) ==
    { U32(0, 0), U32(0, 1), U32(0, 65535), U32(1, 0), U32(291, 17767),
      U32(Pow2(16 - b) - 1, 65535) }

ReadKinds == { "u8", "u16", "u32", "u64", "bytes" }

\* stored coded-index values: every tag of the widest scheme with rows 0, 1
\* and the largest row, in a two-byte and in a four-byte field
StoredVals ==
    { U32(hi, lo) : hi \in { 0, 65535 },
                    lo \in (0 .. 63) \cup (65504 .. 65535) }

\* lengths asked of read_bytes
ReadLens == { 0, 1, 3, 5 }

\* number of bytes a read asks for
ReadWidth(kind, n) ==
    CASE kind = "u8" -> 1
      [] kind = "u16" -> 2
      [] kind = "u32" -> 4
      [] kind = "u64" -> 8
      [] OTHER -> n

\* the reader call of a kind at cursor pos
ReadCall(kind, buf, pos, n) ==
    CASE kind = "u8" -> read_u8(buf, pos)
      [] kind = "u16" -> read_u16(buf, pos)
      [] kind = "u32" -> read_u32(buf, pos)
      [] kind = "u64" -> read_u64(buf, pos)
      [] kind = "index" -> read_index(buf, pos, n > 0)
      [] kind = "null_str" -> read_null_str(buf, pos)
      [] kind = "compressed" -> read_compressed_uint(buf, pos)
      [] OTHER -> read_bytes(buf, pos, n)

\* row counts of a target table on both sides of the 0xFFFF threshold
IndexRowCounts == { 0, 1, 65534, 65535, 65536, 65537 }

\* the layout context in which `table` has `rows` rows
IndexCtx(table, rows) ==
    [ heap_sizes |-> 0, row_counts |-> [ ZeroCounts EXCEPT ![table] = rows ] ]

\* tables headers as TablesHeader::parse leaves them: no table; two tables
\* with rows and a sorted bit; a valid bit whose count is 0 and a wide heap
HeaderSamples ==
    { NoHeader,
      [ NoHeader EXCEPT !.major_version = 2, !.heap_sizes = 5,
                        !.valid = { Module, TypeDef },
                        !.sorted = { InterfaceImpl, NestedClass },
                        !.row_counts = [ ZeroCounts EXCEPT ![Module] = 1,
                                                           ![TypeDef] = 3 ] ],
      [ NoHeader EXCEPT !.reserved = 7, !.minor_version = 1,
                        !.heap_sizes = 2, !.reserved2 = 1,
                        !.valid = { Module, Field, GenericParamConstraint },
                        !.sorted = { Field },
                        !.row_counts = [ ZeroCounts EXCEPT
                                           ![Module] = 1,
                                           ![GenericParamConstraint] = 65536 ] ] }

\* calls of next() on one iterator
MaxIter == 4

\* heap bytes whose entries are intact, or broken in the middle or at the
\* end: bytes that are not UTF-8, no terminator, the invalid length lead
\* 0xE0, a length past the end, an odd UTF-16 payload, a lone surrogate
IterBufs ==
    { <<>>, << 0 >>, << 0, 65, 0, 66, 0 >>, << 255, 0, 65, 0 >>,
      << 0, 65, 0, 66 >>, << 0, 2, 171, 205 >>, << 0, 224, 1, 7 >>,
      << 0, 5, 1, 0 >>, << 1, 7, 224, 0 >>, << 0, 3, 65, 0, 0, 0 >>,
      << 0, 2, 65, 0, 0 >>, << 0, 3, 0, 216, 0, 1, 9 >> }

\* number of operations on one reader
MaxOps == 3

\* the reads of a reader that is used more than once
SessionKinds ==
    { "u8", "u16", "u32", "u64", "index", "null_str", "compressed", "bytes" }

\* buffers with and without a terminator, with the three compressed leads,
\* the invalid lead 0xE0 and a byte that is not UTF-8
SessionBufs ==
    { <<>>, << 0 >>, << 65, 0, 66 >>, << 65, 66 >>, << 255, 0, 7 >>,
      << 128 >>, << 129, 2, 0 >>, << 192, 1, 2 >>, << 193, 1, 2, 3, 65 >>,
      << 224, 0 >>, << 1, 2, 3, 4, 5, 6, 7, 8, 9 >> }

\* method signature blobs: no parameter; fixed parameters; one sentinel
\* before the first or the second parameter; a sentinel before each of two
\* or three parameters; two sentinels in a row; a sentinel as the return
\* type; generic, array, pointer, modifier and function-pointer types; blobs
\* cut short or with an unknown element byte
SigBlobs ==
    { <<>>, << 5 >>, << 0, 0, 1 >>, << 32, 2, 8, 14, 2 >>,
      << 5, 2, 1, 8, 65, 14 >>, << 5, 2, 1, 65, 8, 14 >>,
      << 5, 2, 1, 65, 8, 65, 14 >>, << 5, 3, 1, 65, 8, 65, 14, 65, 2 >>,
      << 5, 2, 1, 65, 65, 8, 14 >>, << 5, 1, 65, 1, 8 >>,
      << 5, 2, 1, 65 >>, << 5, 2, 1, 65, 8, 65 >>, << 0, 1, 1, 0 >>,
      << 0, 224 >>,
      << 16, 1, 1, 21, 18, 5, 1, 30, 0, 29, 19, 0 >>,
      << 0, 1, 1, 20, 8, 2, 1, 3, 1, 1 >>,
      << 0, 2, 15, 1, 16, 31, 9, 8, 69, 28 >>,
      << 0, 1, 1, 27, 5, 1, 1, 65, 8 >>,
      << 5, 2, 1, 65, 27, 5, 1, 1, 65, 8, 17, 129, 2 >> }

\* keys hashed: none, "abc", one byte, the 56 letters of the two-block
\* FIPS example, and runs of 55, 56, 63, 64 and 119 bytes around the
\* padding boundaries
TokenKeys ==
    { <<>>, << 97, 98, 99 >>, << 0 >>,
      << 97, 98, 99, 100, 98, 99, 100, 101, 99, 100, 101, 102, 100, 101,
         102, 103, 101, 102, 103, 104, 102, 103, 104, 105, 103, 104, 105,
         106, 104, 105, 106, 107, 105, 106, 107, 108, 106, 107, 108, 109,
         107, 108, 109, 110, 108, 109, 110, 111, 109, 110, 111, 112, 110,
         111, 112, 113 >> }
      \cup { [ i \in 1 .. n |-> (i * 7) % 256 ] : n \in { 55, 56, 63, 64, 119 } }

InitCodec ==
    /\ IdleRowState
    /\ IdleHeapState
    /\ IdleMdState
    /\ cout = NoResult
    /\ \/ \E v \in CompressedVals :
            cin = [ NoCall EXCEPT !.op = "compressed", !.v = v ]
       \/ \E kind \in CodedIndexKinds :
            \/ \E t \in Targets(kind), r \in CodedRows(tag_bits(kind)) :
                  cin = [ NoCall EXCEPT !.op = "coded", !.kind = kind,
                                        !.table = t, !.row = r ]
            \/ cin = [ NoCall EXCEPT !.op = "coded", !.kind = kind ]
            \/ \E v \in StoredVals :
                  cin = [ NoCall EXCEPT !.op = "stored", !.kind = kind,
                                        !.val = v ]
       \/ \E t \in TableIds, rows \in IndexRowCounts :
            \E v \in { 0, 1, rows, rows + 1 } :
                cin = [ NoCall EXCEPT !.op = "index", !.table = t,
                                      !.n = rows, !.v = v ]
       \/ \E h \in HeaderSamples, t \in TableIds, n \in { 0, 1, 65536 } :
            cin = [ NoCall EXCEPT !.op = "set_row_count", !.header = h,
                                  !.table = t, !.n = n ]
       \/ \E kind \in { "Strings", "US", "Blob" }, buf \in IterBufs :
            cin = [ NoCall EXCEPT !.op = "iter", !.kind = kind,
                                  !.data = buf ]
       \/ \E buf \in SessionBufs :
            cin = [ NoCall EXCEPT !.op = "session", !.data = buf ]
       \/ \E blob \in SigBlobs :
            cin = [ NoCall EXCEPT !.op = "methodsig", !.data = blob ]
       \/ \E key \in TokenKeys :
            cin = [ NoCall EXCEPT !.op = "token", !.data = key ]
       \/ \E len \in 0 .. MaxBuf, kind \in ReadKinds :
            \E pos \in 0 .. len, n \in ReadLens :
                /\ kind # "bytes" => n = 0
                /\ cin = [ NoCall EXCEPT !.op = "read", !.kind = kind,
                                         !.data = [ i \in 1 .. len |-> 16 + i ],
                                         !.pos = pos, !.n = n ]

\* Writer::write_compressed_uint(v) into a fresh writer
CompressedWrite ==
    /\ cin.op = "compressed" /\ cout.step = 0
    /\ cout' = [ cout EXCEPT !.step = 1,
                             !.bytes = write_compressed_uint(cin.v) ]
    /\ UNCHANGED << cin, notCodecVars >>

\* Reader::read_compressed_uint over the bytes just written
CompressedRead ==
    /\ cin.op = "compressed" /\ cout.step = 1
    /\ cout' = [ cout EXCEPT !.step = 2,
                             !.res = read_compressed_uint(cout.bytes, 0) ]
    /\ UNCHANGED << cin, notCodecVars >>

\* CodedIndex{table, row}.encode(kind): of the given index, or of the index
\* a row parser decoded from a stored value (the row writer's call)
CodedEncode ==
    /\ \/ cin.op = "coded" /\ cout.step = 0
       \/ cin.op = "stored" /\ cout.step = 1
    /\ \E ci \in { IF cin.op = "coded"
                   THEN [ table |-> cin.table, row |-> cin.row ]
                   ELSE cout.res } :
          cout' = [ cout EXCEPT !.step = @ + 1,
                                !.val = encode_u32(ci, cin.kind) ]
    /\ UNCHANGED << cin, notCodecVars >>

\* CodedIndex::decode(kind, value): of the value just encoded, or of a
\* stored value (the row parser's call)
CodedDecode ==
    /\ \/ cin.op = "coded" /\ cout.step = 1
       \/ cin.op = "stored" /\ cout.step = 0
    /\ \E value \in { IF cin.op = "coded" THEN cout.val ELSE cin.val } :
          cout' = [ cout EXCEPT !.step = @ + 1,
                                !.res = decode_u32(cin.kind, value) ]
    /\ UNCHANGED << cin, notCodecVars >>

\* one read_u8 / read_u16 / read_u32 / read_u64 / read_bytes(n)
ReaderRead ==
    /\ cin.op = "read" /\ cout.step = 0
    /\ cout' = [ cout EXCEPT
                   !.step = 1,
                   !.res = ReadCall(cin.kind, cin.data, cin.pos, cin.n) ]
    /\ UNCHANGED << cin, notCodecVars >>

\* Writer::write_index(v, ctx.wide_table_index(table)) into a fresh writer
IndexWrite ==
    /\ cin.op = "index" /\ cout.step = 0
    /\ cout' = [ cout EXCEPT
                   !.step = 1,
                   !.bytes = write_index(cin.v,
                                 wide_table_index(IndexCtx(cin.table, cin.n),
                                                  cin.table)) ]
    /\ UNCHANGED << cin, notCodecVars >>

\* Reader::read_index(ctx.wide_table_index(table)) over the bytes written
IndexRead ==
    /\ cin.op = "index" /\ cout.step = 1
    /\ cout' = [ cout EXCEPT
                   !.step = 2,
                   !.res = read_index(cout.bytes, 0,
                               wide_table_index(IndexCtx(cin.table, cin.n),
                                                cin.table)) ]
    /\ UNCHANGED << cin, notCodecVars >>

\* TablesHeader::set_row_count(table, n)
SetRowCount ==
    /\ cin.op = "set_row_count" /\ cout.step = 0
    /\ cout' = [ cout EXCEPT
                   !.step = 1,
                   !.header = set_row_count(cin.header, cin.table, cin.n) ]
    /\ UNCHANGED << cin, notCodecVars >>

\* next() on the iterator of a heap parsed from cin.data; the iterator's
\* offset is the one the previous call left
IterNext ==
    /\ cin.op = "iter" /\ cout.step < MaxIter
    /\ \E r \in { Iter_next(cin.kind, cin.data, cout.res.pos) } :
          cout' = [ cout EXCEPT !.step = @ + 1,
                                !.res = [ NoRes EXCEPT !.pos = r.offset ],
                                !.log = Append(@, r) ]
    /\ UNCHANGED << cin, notCodecVars >>

\* one more read on a reader whose cursor is where the last call left it
SessionRead(kind, n) ==
    /\ cin.op = "session" /\ cout.step < MaxOps
    /\ cout' = [ cout EXCEPT
                   !.step = @ + 1,
                   !.res = ReadCall(kind, cin.data, cout.res.pos, n),
                   !.last = [ op |-> kind, arg |-> n ] ]
    /\ UNCHANGED << cin, notCodecVars >>

\* Reader::seek(target) on the same reader
SessionSeek(target) ==
    /\ cin.op = "session" /\ cout.step < MaxOps
    /\ cout' = [ cout EXCEPT
                   !.step = @ + 1,
                   !.res = seek(cin.data, cout.res.pos, target),
                   !.last = [ op |-> "seek", arg |-> target ] ]
    /\ UNCHANGED << cin, notCodecVars >>

\* MethodSig::parse_blob(data); the log keeps the sentinel bytes the
\* parameter loop consumed
MethodSigParse ==
    /\ cin.op = "methodsig" /\ cout.step = 0
    /\ \E r \in { MethodSig_parse_blob(cin.data) } :
          cout' = [ cout EXCEPT
                      !.step = 1,
                      !.res = [ ok |-> r.ok, val |-> r.val, pos |-> r.pos,
                                err |-> r.err ],
                      !.log = r.consumed ]
    /\ UNCHANGED << cin, notCodecVars >>

\* public_key_token(key); the hash of the same call is kept in the log
PublicKeyToken ==
    /\ cin.op = "token" /\ cout.step = 0
    /\ cout' = [ cout EXCEPT !.step = 1,
                             !.bytes = public_key_token(cin.data),
                             !.log = sha1(cin.data) ]
    /\ UNCHANGED << cin, notCodecVars >>

NextCodec ==
    \/ CompressedWrite
    \/ CompressedRead
    \/ CodedEncode
    \/ CodedDecode
    \/ ReaderRead
    \/ IndexWrite
    \/ IndexRead
    \/ SetRowCount
    \/ IterNext
    \/ MethodSigParse
    \/ PublicKeyToken
    \/ \E kind \in SessionKinds, n \in ReadLens :
          /\ kind \notin { "bytes", "index" } => n = 0
          /\ SessionRead(kind, n)
    \/ \E target \in 0 .. MaxBuf + 2 : SessionSeek(target)

SpecCodec == InitCodec /\ [][NextCodec]_vars

\* ------------------------------------------------------------------------
\* Claims about the codecs (checked under SpecCodec)
\* ------------------------------------------------------------------------
\* C13: for every v in 0..=0x1FFFFFFF, read_compressed_uint over the bytes of
\* write_compressed_uint(v) returns v and consumes exactly the bytes written.
C13_CompressedRoundTrip ==
    (cin.op = "compressed" /\ cout.step = 2) =>
        /\ cout.res.ok
        /\ cout.res.val = cin.v
        /\ cout.res.pos = Len(cout.bytes)

\* C13 witness: 0x1FFFFFFF was written in four bytes and read back
C13_Witness ==
    /\ cin.op = "compressed" /\ cout.step = 2
    /\ cin.v = 536870911 /\ Len(cout.bytes) = 4

\* C14: write_compressed_uint(v) emits one byte v when v < 0x80, two bytes
\* (0x80 | v >> 8, v & 0xFF) when 0x80 <= v < 0x4000 and four bytes
\* (0xC0 | v >> 24, then the low three bytes big-endian) when
\* 0x4000 <= v <= 0x1FFFFFFF; the leading byte starts with bits 0, 10, 110.
C14_CompressedForms ==
    (cin.op = "compressed" /\ cout.step >= 1) =>
        LET v == cin.v
            b == cout.bytes
        IN  /\ v < 128 => b = << v >> /\ b[1] < 128
            /\ (128 <= v /\ v < 16384) =>
                  /\ b = << 128 + (v \div 256), v % 256 >>
                  /\ b[1] \in 128 .. 191
            /\ (16384 <= v /\ v <= 536870911) =>
                  /\ b = << 192 + (v \div 16777216), (v \div 65536) % 256,
                            (v \div 256) % 256, v % 256 >>
                  /\ b[1] \in 192 .. 223

\* C14 witness: 16384 was written as C0 00 40 00
C14_Witness ==
    /\ cin.op = "compressed" /\ cout.step = 1
    /\ cin.v = 16384 /\ cout.bytes = << 192, 0, 64, 0 >>

\* C15: for every scheme, every table T of its target list and every row
\* r < 2^(32 - tag_bits), decode(scheme, encode(scheme, (T, r))) = (T, r).
C15_CodedIndexRoundTrip ==
    (cin.op = "coded" /\ cout.step = 2 /\ cin.table # NoTable) =>
        cout.res = [ table |-> cin.table, row |-> cin.row ]

\* C15 witness: the 22nd target of HasCustomAttribute with the largest row
\* that fits 27 bits went through encode and decode
C15_Witness ==
    /\ cin.op = "coded" /\ cout.step = 2
    /\ cin.kind = "HasCustomAttribute" /\ cin.table = MethodSpec
    /\ cin.row = U32(2047, 65535)
    /\ cout.val = U32(65535, 65525)

\* C16: for every one of the 13 schemes, encoding the null coded index (no
\* table, row 0) produces the stored value 0.
C16_NullEncodesToZero ==
    (cin.op = "coded" /\ cout.step >= 1 /\ cin.table = NoTable
     /\ cin.row = U32(0, 0)) =>
        cout.val = U32(0, 0)

ParseEnded == pc.phase \in { "parsed", "done", "error", "panic" }

\* the stream directory read by this parse lists a stream whose declared
\* range [offset, offset + size) is not inside the bytes given to parse
StreamOutsideData ==
    \E i \in 1 .. Len(md.root.streams) :
        md.root.streams[i].offset + md.root.streams[i].size > Len(data)

\* C19: when a stream of the directory has a declared range that is not
\* contained in the bytes given to Metadata::parse, parse returns an
\* UnexpectedEof error; it neither aborts nor substitutes an empty stream.
C19_StreamOutsideDataIsAnError ==
    (ParseEnded /\ StreamOutsideData) =>
        /\ pc.phase = "error"
        /\ pc.err.kind = "UnexpectedEof"


\* C29: for every scheme and every stored 32-bit value v,
\* decode(scheme, v).encode(scheme) = v: a coded-index field a row parser
\* read is written back with the same tag and row bits.
C29_DecodeEncodeKeepsStoredValue ==
    (cin.op = "stored" /\ cout.step = 2) => cout.val = cin.val


\* C30: after any sequence of Reader operations (reads of any kind that
\* succeeded or failed, and seeks), 0 <= position() <= len() and
\* remaining() = len() - position(); a seek succeeds iff its target is
\* <= len().
C30_ReaderCursorInBounds ==
    cin.op = "session" =>
        LET pos == cout.res.pos
        IN  /\ 0 <= position(cin.data, pos)
            /\ position(cin.data, pos) <= Reader_len(cin.data, pos)
            /\ remaining(cin.data, pos)
                 = Reader_len(cin.data, pos) - position(cin.data, pos)
            /\ cout.last.op = "seek" =>
                  (cout.res.ok <=> cout.last.arg <= Reader_len(cin.data, pos))

\* C30 witness: a read_null_str without terminator failed at the end of the
\* buffer, then a seek past the end failed and one to the end succeeded
C30_Witness ==
    /\ cin.op = "session" /\ cin.data = << 65, 66 >>
    /\ cout.step = 3 /\ cout.last = [ op |-> "seek", arg |-> 2 ]
    /\ cout.res.ok /\ cout.res.pos = 2


\* C28: for every simple-table index value v in [0, rows + 1] and the layout
\* context whose row count for the target table is rows, write_index
\* followed by read_index at the width that context assigns returns v.
C28_TableIndexRoundTrip ==
    (cin.op = "index" /\ cout.step = 2) =>
        /\ cout.res.ok
        /\ cout.res.val = cin.v


\* C22: set_row_count(t, n) sets row_count(t) to n and makes has_table(t)
\* true iff n > 0, and leaves the row counts and valid bits of every other
\* table, the sorted mask, heap_sizes and the version fields unchanged.
C22_SetRowCountFrame ==
    (cin.op = "set_row_count" /\ cout.step = 1) =>
        LET old == cin.header
            new == cout.header
        IN  /\ row_count(new, cin.table) = cin.n
            /\ has_table(new, cin.table) <=> cin.n > 0
            /\ \A u \in RowCountSlots \ { cin.table } :
                  /\ new.row_counts[u] = old.row_counts[u]
                  /\ (u \in new.valid) <=> (u \in old.valid)
            /\ new.sorted = old.sorted
            /\ new.heap_sizes = old.heap_sizes
            /\ new.major_version = old.major_version
            /\ new.minor_version = old.minor_version

\* C22 witness: the count of a table that had rows was set to 0, which
\* cleared its valid bit and left the other two valid tables
C22_Witness ==
    /\ cin.op = "set_row_count" /\ cout.step = 1
    /\ cin.table = GenericParamConstraint /\ cin.n = 0
    /\ cin.header.row_counts[GenericParamConstraint] = 65536
    /\ cout.header.valid = { Module, Field }


\* C23: a #Strings, #US or #Blob iterator stops at the first malformed entry
\* without an error: it yields, in increasing offset order, only well-formed
\* entries, and once next() has returned None every later next() on the same
\* iterator returns None as well, so nothing at or after the malformed entry
\* is ever yielded.
C23_IteratorStopsAtFirstMalformed ==
    cin.op = "iter" =>
        LET log == cout.log
            heap == HeapParse(cin.kind, cin.data)
        IN  /\ \A i, j \in DOMAIN log :
                  (i < j /\ ~log[i].some) => ~log[j].some
            /\ \A i, j \in DOMAIN log :
                  (i < j /\ log[i].some /\ log[j].some) => log[i].at < log[j].at
            /\ \A i \in DOMAIN log :
                  log[i].some =>
                      HeapGet(cin.kind, heap, log[i].at) = GetOk(log[i].val)

\* C24: MethodSig::parse consumes at most one SENTINEL byte per method
\* signature, never a second one within the same parameter list, and a
\* parsed signature's sentinel field is the index of the parameter that
\* follows the consumed byte (None when no byte was consumed).
C24_AtMostOneSentinel ==
    (cin.op = "methodsig" /\ cout.step = 1)
        => /\ Len(cout.log) <= 1
           /\ cout.res.ok
                => cout.res.val.sentinel
                     = (IF cout.log = <<>> THEN <<>> ELSE << cout.log[1] >>)

\* C25: for every key k, public_key_token(k) is the last 8 bytes of sha1(k)
\* in reversed order: token[i] = sha1(k)[19 - i] for i in 0..8 (sequences
\* are indexed from 1 here).
C25_TokenIsReversedHashTail ==
    (cin.op = "token" /\ cout.step = 1)
        => /\ Len(cout.bytes) = 8
           /\ Len(cout.log) = 20
           /\ \A i \in 0 .. 7 : cout.bytes[i + 1] = cout.log[(19 - i) + 1]

\* the token of "abc", whose hash is a9993e36 4706816a ba3e2571 7850c26c
\* 9cd0d89d
C25_Witness ==
    /\ cin.op = "token" /\ cout.step = 1
    /\ cin.data = << 97, 98, 99 >>
    /\ cout.log = << 169, 153, 62, 54, 71, 6, 129, 106, 186, 62, 37, 113,
                     120, 80, 194, 108, 156, 208, 216, 157 >>
    /\ cout.bytes = << 157, 216, 208, 156, 108, 194, 80, 120 >>

====
